---- MODULE Spec2Model ----
(***************************************************************************)
(* A model of the chess position engine of agent/board.py, agent/move.py   *)
(* and agent/square.py.  A bitboard is modelled as the set of the indices  *)
(* (0..63) of its set bits: | is \cup, & is \cap, & ~m is \ m.  A Square   *)
(* is modelled by its 0..63 index int(square); Square.from_coords and      *)
(* Square.from_bitboard_square are the bijection between the two.          *)
(***************************************************************************)
EXTENDS Integers, Sequences, FiniteSets, TLC

VARIABLES board, legal_moves, last, calls

vars == <<board, legal_moves, last, calls>>

(***************************************************************************)
(* Bounds of the model.                                                    *)
(***************************************************************************)
MaxCalls == 4

(***************************************************************************)
(* agent/square.py                                                         *)
(***************************************************************************)
Squares == 0..63

None == -1

A1 == 0
B1 == 1
C1 == 2
D1 == 3
E1 == 4
F1 == 5
G1 == 6
H1 == 7
A8 == 56
B8 == 57
C8 == 58
D8 == 59
E8 == 60
F8 == 61
G8 == 62
H8 == 63

from_coords(rank, file) == rank * 8 + file

Abs(x) == IF x < 0 THEN -x ELSE x

FileChars == <<"a", "b", "c", "d", "e", "f", "g", "h">>

RankChars == <<"1", "2", "3", "4", "5", "6", "7", "8">>

IndexOf(seq, ch) == CHOOSE i \in DOMAIN seq : seq[i] = ch

InSeq(seq, ch) == \E i \in DOMAIN seq : seq[i] = ch

\* Square.from_notation: [ok, square]; ok is FALSE where the code raises.
from_notation(notation) ==
    IF Len(notation) = 2 /\ InSeq(FileChars, notation[1]) /\ InSeq(RankChars, notation[2])
    THEN [ok |-> TRUE,
          square |-> from_coords(IndexOf(RankChars, notation[2]) - 1,
                                 IndexOf(FileChars, notation[1]) - 1)]
    ELSE [ok |-> FALSE, square |-> None]

(***************************************************************************)
(* agent/move.py                                                           *)
(***************************************************************************)
MoveFlag == {"QUIET", "DOUBLE_PAWN_PUSH", "KING_CASTLE", "QUEEN_CASTLE", "CAPTURE",
             "EN_PASSANT", "PROMOTION_N", "PROMOTION_B", "PROMOTION_R", "PROMOTION_Q",
             "PROMOTION_CAPTURE_N", "PROMOTION_CAPTURE_B", "PROMOTION_CAPTURE_R",
             "PROMOTION_CAPTURE_Q"}

Move(from_square, to_square, flag) ==
    [from_square |-> from_square, to_square |-> to_square, flag |-> flag]

is_capture(move) ==
    move.flag \in {"CAPTURE", "EN_PASSANT", "PROMOTION_CAPTURE_B", "PROMOTION_CAPTURE_N",
                   "PROMOTION_CAPTURE_Q", "PROMOTION_CAPTURE_R"}

is_promotion(move) ==
    move.flag \in {"PROMOTION_N", "PROMOTION_B", "PROMOTION_R", "PROMOTION_Q",
                   "PROMOTION_CAPTURE_N", "PROMOTION_CAPTURE_B", "PROMOTION_CAPTURE_R",
                   "PROMOTION_CAPTURE_Q"}

is_castling(move) == move.flag \in {"KING_CASTLE", "QUEEN_CASTLE"}

get_promotion_piece(move) ==
    CASE move.flag \in {"PROMOTION_N", "PROMOTION_CAPTURE_N"} -> "N"
      [] move.flag \in {"PROMOTION_B", "PROMOTION_CAPTURE_B"} -> "B"
      [] move.flag \in {"PROMOTION_R", "PROMOTION_CAPTURE_R"} -> "R"
      [] move.flag \in {"PROMOTION_Q", "PROMOTION_CAPTURE_Q"} -> "Q"
      [] OTHER -> ""

(***************************************************************************)
(* agent/board.py: representation                                          *)
(***************************************************************************)
NORTH == 8
SOUTH == -8
EAST == 1
WEST == -1
NORTH_EAST == 9
NORTH_WEST == 7
SOUTH_EAST == -7
SOUTH_WEST == -9

\* The twelve piece bitboards, in the order make_move visits them.
PieceBitboards == <<"white_pawns", "white_knights", "white_bishops", "white_rooks",
                    "white_queens", "white_king", "black_pawns", "black_knights",
                    "black_bishops", "black_rooks", "black_queens", "black_king">>

PieceChars == <<"P", "N", "B", "R", "Q", "K", "p", "n", "b", "r", "q", "k">>

WhiteChars == {"P", "N", "B", "R", "Q", "K"}

BlackChars == {"p", "n", "b", "r", "q", "k"}

isupper(piece) == piece \in WhiteChars

islower(piece) == piece \in BlackChars

upper(piece) ==
    IF piece \in BlackChars THEN PieceChars[IndexOf(PieceChars, piece) - 6] ELSE piece

\* str.lower() of one character; of the upper-case letters only P, N, B, R,
\* Q, K are mapped, which are all that lower to a key of promotion_flags.
lower(char) ==
    IF char \in WhiteChars THEN PieceChars[IndexOf(PieceChars, char) + 6] ELSE char

\* Move.from_uci: [ok, move]; ok is FALSE where the code raises ValueError.
from_uci(uci) ==
    IF ~(/\ Len(uci) \in {4, 5}
         /\ InSeq(FileChars, uci[1]) /\ InSeq(RankChars, uci[2])
         /\ InSeq(FileChars, uci[3]) /\ InSeq(RankChars, uci[4]))
    THEN [ok |-> FALSE, move |-> Move(None, None, "QUIET")]
    ELSE LET from_square == from_notation(SubSeq(uci, 1, 2)).square
             to_square == from_notation(SubSeq(uci, 3, 4)).square
         IN IF Len(uci) = 5
            THEN IF lower(uci[5]) \in {"n", "b", "r", "q"}
                 THEN [ok |-> TRUE,
                       move |-> Move(from_square, to_square,
                                     "PROMOTION_" \o upper(lower(uci[5])))]
                 ELSE [ok |-> FALSE, move |-> Move(None, None, "QUIET")]
            ELSE [ok |-> TRUE, move |-> Move(from_square, to_square, "QUIET")]

\* Board.__init__ before _parse_fen: all bitboards 0, default game state.
EmptyBoard ==
    [white_pawns |-> {}, white_knights |-> {}, white_bishops |-> {}, white_rooks |-> {},
     white_queens |-> {}, white_king |-> {},
     black_pawns |-> {}, black_knights |-> {}, black_bishops |-> {}, black_rooks |-> {},
     black_queens |-> {}, black_king |-> {},
     white_pieces |-> {}, black_pieces |-> {}, all_pieces |-> {},
     white_to_move |-> TRUE,
     castling_rights |-> [K |-> TRUE, Q |-> TRUE, k |-> TRUE, q |-> TRUE],
     en_passant_target |-> None,
     halfmove_clock |-> 0,
     fullmove_number |-> 1]

update_position_masks_stale(self) == self

update_position_masks(self) ==
    LET white == self.white_pawns \cup self.white_knights \cup self.white_bishops \cup
                 self.white_rooks \cup self.white_queens \cup self.white_king
        black == self.black_pawns \cup self.black_knights \cup self.black_bishops \cup
                 self.black_rooks \cup self.black_queens \cup self.black_king
    IN [self EXCEPT !.white_pieces = white,
                    !.black_pieces = black,
                    !.all_pieces = white \cup black]

get_piece_at(self, square) ==
    IF square \in self.white_pawns THEN "P"
    ELSE IF square \in self.white_knights THEN "N"
    ELSE IF square \in self.white_bishops THEN "B"
    ELSE IF square \in self.white_rooks THEN "R"
    ELSE IF square \in self.white_queens THEN "Q"
    ELSE IF square \in self.white_king THEN "K"
    ELSE IF square \in self.black_pawns THEN "p"
    ELSE IF square \in self.black_knights THEN "n"
    ELSE IF square \in self.black_bishops THEN "b"
    ELSE IF square \in self.black_rooks THEN "r"
    ELSE IF square \in self.black_queens THEN "q"
    ELSE IF square \in self.black_king THEN "k"
    ELSE "."

(***************************************************************************)
(* agent/board.py: construction from a FEN string.  A string is modelled   *)
(* as the sequence of its characters.                                      *)
(***************************************************************************)
Digits == <<"0", "1", "2", "3", "4", "5", "6", "7", "8", "9">>

isdigit(char) == InSeq(Digits, char)

DigitValue(char) == IndexOf(Digits, char) - 1

RECURSIVE int_of(_)
\* int(s) for a string of decimal digits.
int_of(s) ==
    IF Len(s) = 0 THEN 0
    ELSE 10 * int_of(SubSeq(s, 1, Len(s) - 1)) + DigitValue(s[Len(s)])

RECURSIVE split_on(_, _, _)
\* str.split(sep): the fields between separators, empty fields kept;
\* cur is the field being read.
split_on(s, sep, cur) ==
    IF Len(s) = 0 THEN <<cur>>
    ELSE IF Head(s) = sep THEN <<cur>> \o split_on(Tail(s), sep, <<>>)
    ELSE split_on(Tail(s), sep, Append(cur, Head(s)))

\* str.split(): fields separated by runs of blanks, empty fields dropped.
split_blank(s) == SelectSeq(split_on(s, " ", <<>>), LAMBDA f : Len(f) > 0)

RECURSIVE parse_rank(_, _, _, _, _)
\* The inner loop of _parse_fen over the characters of one rank;
\* acc is [ok, board], ok FALSE once Square.from_coords has raised.
parse_rank(acc, rank, rank_idx, i, file_idx) ==
    IF ~acc.ok \/ i > Len(rank) THEN acc
    ELSE LET char == rank[i] IN
         IF isdigit(char)
         THEN parse_rank(acc, rank, rank_idx, i + 1, file_idx + DigitValue(char))
         ELSE IF ~(7 - rank_idx \in 0..7 /\ file_idx \in 0..7)
         THEN [acc EXCEPT !.ok = FALSE]
         ELSE LET square == from_coords(7 - rank_idx, file_idx)
                  placed == IF InSeq(PieceChars, char)
                            THEN LET bb == PieceBitboards[IndexOf(PieceChars, char)]
                                 IN [acc.board EXCEPT ![bb] = @ \cup {square}]
                            ELSE acc.board
              IN parse_rank([acc EXCEPT !.board = placed], rank, rank_idx, i + 1,
                            file_idx + 1)

RECURSIVE parse_ranks(_, _, _)
parse_ranks(acc, ranks, n) ==
    IF n > Len(ranks) THEN acc
    ELSE parse_ranks(parse_rank(acc, ranks[n], n - 1, 1, 0), ranks, n + 1)

\* Board._parse_fen: [ok, board].
parse_fen(self, fen) ==
    LET parts == split_blank(fen)
        placed == parse_ranks([ok |-> TRUE, board |-> self], split_on(parts[1], "/", <<>>), 1)
        ep == IF parts[4] = <<"-">> THEN [ok |-> TRUE, square |-> None]
              ELSE from_notation(parts[4])
    IN [ok |-> placed.ok /\ ep.ok,
        board |-> [placed.board EXCEPT
                     !.white_to_move = (parts[2] = <<"w">>),
                     !.castling_rights = [K |-> InSeq(parts[3], "K"),
                                          Q |-> InSeq(parts[3], "Q"),
                                          k |-> InSeq(parts[3], "k"),
                                          q |-> InSeq(parts[3], "q")],
                     !.en_passant_target = ep.square,
                     !.halfmove_clock = int_of(parts[5]),
                     !.fullmove_number = int_of(parts[6])]]

\* Board.__init__: the board built from a FEN string.
Board(fen) == update_position_masks(parse_fen(EmptyBoard, fen).board)

RECURSIVE str_of(_)
\* str(n) for a natural number: its decimal digits.
str_of(n) ==
    IF n < 10 THEN <<Digits[n + 1]>>
    ELSE str_of(n \div 10) \o <<Digits[(n % 10) + 1]>>

\* Square.notation: the file letter and the 1-based rank.
notation(square) == <<FileChars[(square % 8) + 1], RankChars[(square \div 8) + 1]>>

RECURSIVE rank_str(_, _, _, _)
\* The inner loop of generate_fen over the files of one rank, from file on,
\* with the flush of empty_count after the loop; empty_count is 0 at the
\* start of every rank since the flush resets it.
rank_str(self, rank, file, empty_count) ==
    IF file > 7
    THEN (IF empty_count > 0 THEN str_of(empty_count) ELSE <<>>)
    ELSE LET piece == get_piece_at(self, from_coords(rank, file)) IN
         IF piece = "."
         THEN rank_str(self, rank, file + 1, empty_count + 1)
         ELSE (IF empty_count > 0 THEN str_of(empty_count) ELSE <<>>)
              \o <<piece>> \o rank_str(self, rank, file + 1, 0)

RECURSIVE join(_, _)
\* sep.join(fields)
join(sep, fields) ==
    IF Len(fields) = 0 THEN <<>>
    ELSE IF Len(fields) = 1 THEN fields[1]
    ELSE fields[1] \o sep \o join(sep, Tail(fields))

\* The castling field of generate_fen.
castling_str(self) ==
    LET castling == (IF self.castling_rights.K THEN <<"K">> ELSE <<>>)
                    \o (IF self.castling_rights.Q THEN <<"Q">> ELSE <<>>)
                    \o (IF self.castling_rights.k THEN <<"k">> ELSE <<>>)
                    \o (IF self.castling_rights.q THEN <<"q">> ELSE <<>>)
    IN IF Len(castling) > 0 THEN castling ELSE <<"-">>

\* generate_fen with the castling field always written as '-'.
generate_fen_no_rights(self) ==
    join(<<"/">>, [i \in 1..8 |-> rank_str(self, 8 - i, 0, 0)])
    \o (IF self.white_to_move THEN <<" ", "w", " ">> ELSE <<" ", "b", " ">>)
    \o <<"-">>
    \o <<" ">> \o (IF self.en_passant_target # None /\ self.en_passant_target # A1
                    THEN notation(self.en_passant_target) ELSE <<"-">>)
    \o <<" ">> \o str_of(self.halfmove_clock)
    \o <<" ">> \o str_of(self.fullmove_number)

\* Board.generate_fen; a Square is an IntEnum, so the en-passant target a1
\* (value 0) is falsy and written as '-'.
generate_fen(self) ==
    join(<<"/">>, [i \in 1..8 |-> rank_str(self, 8 - i, 0, 0)])
    \o (IF self.white_to_move THEN <<" ", "w", " ">> ELSE <<" ", "b", " ">>)
    \o castling_str(self)
    \o <<" ">> \o (IF self.en_passant_target # None /\ self.en_passant_target # A1
                    THEN notation(self.en_passant_target) ELSE <<"-">>)
    \o <<" ">> \o str_of(self.halfmove_clock)
    \o <<" ">> \o str_of(self.fullmove_number)

(***************************************************************************)
(* agent/board.py: attack detection                                        *)
(***************************************************************************)
knight_moves == << <<2, 1>>, <<2, -1>>, <<-2, 1>>, <<-2, -1>>,
                   <<1, 2>>, <<1, -2>>, <<-1, 2>>, <<-1, -2>> >>

king_moves == << <<1, 0>>, <<1, 1>>, <<0, 1>>, <<-1, 1>>,
                 <<-1, 0>>, <<-1, -1>>, <<0, -1>>, <<1, -1>> >>

diagonal_directions == <<NORTH_EAST, NORTH_WEST, SOUTH_EAST, SOUTH_WEST>>

straight_directions == <<NORTH, SOUTH, EAST, WEST>>

queen_directions == <<NORTH, SOUTH, EAST, WEST,
                      NORTH_EAST, NORTH_WEST, SOUTH_EAST, SOUTH_WEST>>

\* is_square_attacked, pawn part: a pawn of by_white on the rank behind,
\* one file to either side.
pawn_attacks_square(self, rank, file, by_white) ==
    \E attack_file \in {file - 1, file + 1} :
        /\ 0 <= attack_file /\ attack_file < 8
        /\ IF by_white
           THEN rank > 0 /\ get_piece_at(self, from_coords(rank - 1, attack_file)) = "P"
           ELSE rank < 7 /\ get_piece_at(self, from_coords(rank + 1, attack_file)) = "p"

\* is_square_attacked, knight and king parts: a piece `wanted` at one of
\* the offsets.
offset_attacks_square(self, rank, file, offsets, wanted) ==
    \E i \in DOMAIN offsets :
        LET new_rank == rank + offsets[i][1]
            new_file == file + offsets[i][2]
        IN /\ 0 <= new_rank /\ new_rank < 8 /\ 0 <= new_file /\ new_file < 8
           /\ get_piece_at(self, from_coords(new_rank, new_file)) = wanted

RECURSIVE diagonal_walk(_, _, _, _, _, _)
\* is_square_attacked, one diagonal ray: TRUE iff the first piece met is a
\* bishop or queen of by_white.
diagonal_walk(self, current_square, current_rank, current_file, direction, by_white) ==
    LET next_square == current_square + direction IN
    IF next_square < 0 \/ next_square > 63 THEN FALSE
    ELSE LET new_rank == next_square \div 8
             new_file == next_square % 8
         IN IF Abs(new_rank - current_rank) # Abs(new_file - current_file) THEN FALSE
            ELSE LET piece == get_piece_at(self, next_square) IN
                 IF piece # "."
                 THEN IF by_white THEN piece \in {"B", "Q"} ELSE piece \in {"b", "q"}
                 ELSE diagonal_walk(self, next_square, new_rank, new_file, direction, by_white)

RECURSIVE straight_walk(_, _, _, _, _, _)
\* is_square_attacked, one straight ray: TRUE iff the first piece met is a
\* rook or queen of by_white.
straight_walk(self, current_square, current_rank, current_file, direction, by_white) ==
    LET next_square == current_square + direction IN
    IF next_square < 0 \/ next_square > 63 THEN FALSE
    ELSE LET new_rank == next_square \div 8
             new_file == next_square % 8
         IN IF \/ (direction \in {EAST, WEST} /\ new_rank # current_rank)
               \/ (direction \in {NORTH, SOUTH} /\ new_file # current_file)
            THEN FALSE
            ELSE LET piece == get_piece_at(self, next_square) IN
                 IF piece # "."
                 THEN IF by_white THEN piece \in {"R", "Q"} ELSE piece \in {"r", "q"}
                 ELSE straight_walk(self, next_square, new_rank, new_file, direction, by_white)

is_square_attacked(self, square, by_white) ==
    LET rank == square \div 8
        file == square % 8
    IN \/ pawn_attacks_square(self, rank, file, by_white)
       \/ offset_attacks_square(self, rank, file, knight_moves, IF by_white THEN "N" ELSE "n")
       \/ \E i \in DOMAIN diagonal_directions :
              diagonal_walk(self, square, rank, file, diagonal_directions[i], by_white)
       \/ \E i \in DOMAIN straight_directions :
              straight_walk(self, square, rank, file, straight_directions[i], by_white)
       \/ offset_attacks_square(self, rank, file, king_moves, IF by_white THEN "K" ELSE "k")

RECURSIVE sliding_attack_walk(_, _, _, _, _)
\* get_sliding_attacks, the while loop along one direction: [attacks, file],
\* file the value the loop leaves in the variable of that name.
sliding_attack_walk(self, current_square, direction, file, attacks) ==
    LET next_square == current_square + direction IN
    IF next_square < 0 \/ next_square > 63 \/ Abs((next_square % 8) - file) > 7
    THEN [attacks |-> attacks, file |-> file]
    ELSE IF next_square \in self.all_pieces
    THEN [attacks |-> attacks \cup {next_square}, file |-> file]
    ELSE sliding_attack_walk(self, next_square, direction, next_square % 8,
                             attacks \cup {next_square})

RECURSIVE sliding_attack_directions(_, _, _, _, _)
\* get_sliding_attacks, the loop over the directions from the i-th on; file
\* is set once before the loop and carried from one direction to the next.
sliding_attack_directions(self, square, directions, i, acc) ==
    IF i > Len(directions) THEN acc.attacks
    ELSE sliding_attack_directions(
             self, square, directions, i + 1,
             CHOOSE r \in {sliding_attack_walk(self, square, directions[i], acc.file,
                                               acc.attacks)} : TRUE)

\* Board.get_sliding_attacks: the bitboard as a set of squares.
get_sliding_attacks(self, square, directions) ==
    sliding_attack_directions(self, square, directions, 1,
                              [attacks |-> {}, file |-> square % 8])

\* Board.get_attacks: the bitboard as a set of bit numbers (a white pawn on
\* rank 8 sets a bit above 63; for a black pawn on rank 1 the shift count is
\* negative and Python raises, written here as the negative bit number).
get_attacks(self, square) ==
    LET piece == get_piece_at(self, square)
        is_white == isupper(piece)
        rank == square \div 8
        file == square % 8
    IN CASE piece = "." -> {}
         [] upper(piece) = "P" ->
                IF is_white
                THEN (IF file > 0 THEN {square + 7} ELSE {})
                     \cup (IF file < 7 THEN {square + 9} ELSE {})
                ELSE (IF file > 0 THEN {square - 9} ELSE {})
                     \cup (IF file < 7 THEN {square - 7} ELSE {})
         [] upper(piece) = "N" ->
                {(rank + knight_moves[i][1]) * 8 + file + knight_moves[i][2] :
                     i \in {j \in DOMAIN knight_moves :
                               /\ 0 <= rank + knight_moves[j][1]
                               /\ rank + knight_moves[j][1] < 8
                               /\ 0 <= file + knight_moves[j][2]
                               /\ file + knight_moves[j][2] < 8}}
         [] upper(piece) = "B" -> get_sliding_attacks(self, square, diagonal_directions)
         [] upper(piece) = "R" -> get_sliding_attacks(self, square, straight_directions)
         [] upper(piece) = "Q" -> get_sliding_attacks(self, square, queen_directions)
         [] upper(piece) = "K" ->
                {square + queen_directions[i] :
                     i \in {j \in DOMAIN queen_directions :
                               LET new_square == square + queen_directions[j]
                               IN /\ 0 <= new_square /\ new_square < 64
                                  /\ Abs((new_square % 8) - file) <= 1
                                  /\ Abs((new_square \div 8) - rank) <= 1}}

\* The lowest set bit of a bitboard, None for an empty one.
first_bit(bb) == IF bb = {} THEN None ELSE CHOOSE i \in bb : \A j \in bb : i <= j

is_in_check_never(self, white) == FALSE

is_in_check(self, white) ==
    LET king_square == first_bit(IF white THEN self.white_king ELSE self.black_king)
    IN IF king_square = None THEN FALSE
       ELSE is_square_attacked(self, king_square, ~white)

(***************************************************************************)
(* agent/board.py: make_move                                               *)
(***************************************************************************)
castle_rook_none(self, move) == self

\* make_move, "Handle special moves": the rook's relocation of a castling
\* move, applied to the rook bitboard of the side to move.
castle_rook(self, move) ==
    IF is_castling(move)
    THEN LET rook_from == IF move.flag = "KING_CASTLE"
                          THEN (IF self.white_to_move THEN H1 ELSE H8)
                          ELSE (IF self.white_to_move THEN A1 ELSE A8)
             rook_to == IF move.flag = "KING_CASTLE"
                        THEN (IF self.white_to_move THEN F1 ELSE F8)
                        ELSE (IF self.white_to_move THEN D1 ELSE D8)
         IN IF self.white_to_move
            THEN [self EXCEPT !.white_rooks = (@ \ {rook_from}) \cup {rook_to}]
            ELSE [self EXCEPT !.black_rooks = (@ \ {rook_from}) \cup {rook_to}]
    ELSE self

\* One iteration of the capture/movement loop on one bitboard: the capture
\* writes current_bb & ~to_mask, the move (computed from current_bb)
\* overwrites it.
moved_bb(current_bb, from_bb, to_bb) ==
    IF from_bb \in current_bb THEN (current_bb \ {from_bb}) \cup {to_bb}
    ELSE IF to_bb \in current_bb THEN current_bb \ {to_bb}
    ELSE current_bb

move_pieces_no_capture(self, move) ==
    LET f == move.from_square
        t == move.to_square
        mv(bb) == IF f \in bb THEN (bb \ {f}) \cup {t} ELSE bb
    IN [self EXCEPT !.white_pawns = mv(@), !.white_knights = mv(@),
                    !.white_bishops = mv(@), !.white_rooks = mv(@),
                    !.white_queens = mv(@), !.white_king = mv(@),
                    !.black_pawns = mv(@), !.black_knights = mv(@),
                    !.black_bishops = mv(@), !.black_rooks = mv(@),
                    !.black_queens = mv(@), !.black_king = mv(@)]

\* make_move, "Handle captures and piece movement", over the twelve bitboards.
move_pieces(self, move) ==
    LET f == move.from_square
        t == move.to_square
    IN [self EXCEPT !.white_pawns = moved_bb(@, f, t), !.white_knights = moved_bb(@, f, t),
                    !.white_bishops = moved_bb(@, f, t), !.white_rooks = moved_bb(@, f, t),
                    !.white_queens = moved_bb(@, f, t), !.white_king = moved_bb(@, f, t),
                    !.black_pawns = moved_bb(@, f, t), !.black_knights = moved_bb(@, f, t),
                    !.black_bishops = moved_bb(@, f, t), !.black_rooks = moved_bb(@, f, t),
                    !.black_queens = moved_bb(@, f, t), !.black_king = moved_bb(@, f, t)]

\* make_move, "Handle promotions".
promote(self, move) ==
    IF is_promotion(move)
    THEN LET t == move.to_square
             no_pawn == IF self.white_to_move
                        THEN [self EXCEPT !.white_pawns = @ \ {t}]
                        ELSE [self EXCEPT !.black_pawns = @ \ {t}]
             promotion_piece == get_promotion_piece(move)
             target_bb ==
                 CASE promotion_piece = "Q" ->
                          IF self.white_to_move THEN "white_queens" ELSE "black_queens"
                   [] promotion_piece = "R" ->
                          IF self.white_to_move THEN "white_rooks" ELSE "black_rooks"
                   [] promotion_piece = "B" ->
                          IF self.white_to_move THEN "white_bishops" ELSE "black_bishops"
                   [] promotion_piece = "N" ->
                          IF self.white_to_move THEN "white_knights" ELSE "black_knights"
         IN [no_pawn EXCEPT ![target_bb] = @ \cup {t}]
    ELSE self

\* make_move up to "Update position masks": the move applied tentatively.
tentative_move(self, move) ==
    update_position_masks(promote(move_pieces(castle_rook(self, move), move), move))

restore_state_none(self, old_state) == self

\* self.__dict__ = old_state, where old_state is self.__dict__.copy(): a
\* shallow copy, so old_state["castling_rights"] is the same dict object as
\* self.castling_rights and holds whatever was written to it since the copy.
restore_state(self, old_state) ==
    [old_state EXCEPT !.castling_rights = self.castling_rights]

\* make_move, "Update game state": the side to move and the fullmove number.
update_game_state(self) ==
    LET flipped == [self EXCEPT !.white_to_move = ~@]
    IN IF ~flipped.white_to_move
       THEN [flipped EXCEPT !.fullmove_number = @ + 1]
       ELSE flipped

\* make_move, "Update castling rights"; self.white_to_move is already the
\* flipped value, piece is the piece found on move.from_square before the move.
update_castling_rights(self, move, piece) ==
    IF upper(piece) = "K"
    THEN IF self.white_to_move
         THEN [self EXCEPT !.castling_rights.K = FALSE, !.castling_rights.Q = FALSE]
         ELSE [self EXCEPT !.castling_rights.k = FALSE, !.castling_rights.q = FALSE]
    ELSE IF upper(piece) = "R"
    THEN IF move.from_square = A1 THEN [self EXCEPT !.castling_rights.Q = FALSE]
         ELSE IF move.from_square = H1 THEN [self EXCEPT !.castling_rights.K = FALSE]
         ELSE IF move.from_square = A8 THEN [self EXCEPT !.castling_rights.q = FALSE]
         ELSE IF move.from_square = H8 THEN [self EXCEPT !.castling_rights.k = FALSE]
         ELSE self
    ELSE self

\* Board.make_move: [ok, board], ok the returned boolean, board the object's
\* state after the call.
make_move(self, move) ==
    LET old_state == self
        piece == get_piece_at(self, move.from_square)
    IN IF piece = "." \/ isupper(piece) # self.white_to_move
       THEN [ok |-> FALSE, board |-> self]
       ELSE LET moved == tentative_move(self, move)
            IN IF is_in_check(moved, moved.white_to_move)
               THEN [ok |-> FALSE, board |-> restore_state(moved, old_state)]
               ELSE [ok |-> TRUE,
                     board |-> update_castling_rights(update_game_state(moved), move, piece)]

(***************************************************************************)
(* agent/board.py: move generation                                         *)
(***************************************************************************)
RECURSIVE Concat(_)
\* moves.extend / moves.append over a list of lists, in order.
Concat(seqs) == IF Len(seqs) = 0 THEN <<>> ELSE Head(seqs) \o Concat(Tail(seqs))

\* A piece of the side that is not to move.
is_enemy(self, piece) ==
    \/ (self.white_to_move /\ islower(piece))
    \/ (~self.white_to_move /\ isupper(piece))

promotion_flags == <<"PROMOTION_Q", "PROMOTION_R", "PROMOTION_B", "PROMOTION_N">>

promotion_capture_flags == <<"PROMOTION_CAPTURE_Q", "PROMOTION_CAPTURE_R",
                             "PROMOTION_CAPTURE_B", "PROMOTION_CAPTURE_N">>

\* get_legal_pawn_moves; the White and the Black branch of the code differ
\* in the direction (up), the promotion rank (last) and the starting rank
\* (first) only.
get_legal_pawn_moves(self, square) ==
    LET rank == square \div 8
        file == square % 8
        white == self.white_to_move
        up == IF white THEN 1 ELSE -1
        last_rank == IF white THEN 6 ELSE 1
        first_rank == IF white THEN 1 ELSE 6
        not_on_last == IF white THEN rank < 7 ELSE rank > 0
        forward ==
            IF not_on_last /\ get_piece_at(self, from_coords(rank + up, file)) = "."
            THEN LET target == from_coords(rank + up, file)
                 IN (IF rank = last_rank
                     THEN [i \in 1..4 |-> Move(square, target, promotion_flags[i])]
                     ELSE <<Move(square, target, "QUIET")>>)
                    \o (IF rank = first_rank /\
                           get_piece_at(self, from_coords(rank + 2 * up, file)) = "."
                        THEN <<Move(square, from_coords(rank + 2 * up, file),
                                    "DOUBLE_PAWN_PUSH")>>
                        ELSE <<>>)
            ELSE <<>>
        captures(capture_file) ==
            IF 0 <= capture_file /\ capture_file < 8 /\ not_on_last
            THEN LET target == from_coords(rank + up, capture_file)
                     piece_at_target == get_piece_at(self, target)
                 IN (IF piece_at_target # "." /\
                        (IF white THEN islower(piece_at_target) ELSE isupper(piece_at_target))
                     THEN IF rank = last_rank
                          THEN [i \in 1..4 |-> Move(square, target, promotion_capture_flags[i])]
                          ELSE <<Move(square, target, "CAPTURE")>>
                     ELSE <<>>)
                    \o (IF self.en_passant_target # None /\ self.en_passant_target # A1 /\
                           target = self.en_passant_target
                        THEN <<Move(square, target, "EN_PASSANT")>>
                        ELSE <<>>)
            ELSE <<>>
    IN forward \o captures(file - 1) \o captures(file + 1)

\* The fixed-offset loop shared by get_legal_knight_moves and the "Normal
\* king moves" part of get_legal_king_moves.
offset_moves(self, square, offsets) ==
    LET rank == square \div 8
        file == square % 8
        one(i) ==
            LET new_rank == rank + offsets[i][1]
                new_file == file + offsets[i][2]
            IN IF 0 <= new_rank /\ new_rank < 8 /\ 0 <= new_file /\ new_file < 8
               THEN LET target == from_coords(new_rank, new_file)
                        target_piece == get_piece_at(self, target)
                    IN IF target_piece = "." \/ is_enemy(self, target_piece)
                       THEN <<Move(square, target,
                                   IF target_piece # "." THEN "CAPTURE" ELSE "QUIET")>>
                       ELSE <<>>
               ELSE <<>>
    IN Concat([i \in DOMAIN offsets |-> one(i)])

get_legal_knight_moves_none(self, square) == <<>>

get_legal_knight_moves(self, square) == offset_moves(self, square, knight_moves)

RECURSIVE sliding_walk(_, _, _, _, _, _)
\* get_legal_sliding_moves, the walk along one direction.
sliding_walk(self, square, direction, current_square, current_rank, current_file) ==
    LET next_square == current_square + direction IN
    IF next_square < 0 \/ next_square > 63 THEN <<>>
    ELSE LET new_rank == next_square \div 8
             new_file == next_square % 8
             rank_diff == Abs(new_rank - current_rank)
             file_diff == Abs(new_file - current_file)
         IN IF \/ (direction \in {EAST, WEST} /\ rank_diff # 0)
               \/ (direction \in {NORTH, SOUTH} /\ file_diff # 0)
               \/ (direction \in {NORTH_EAST, NORTH_WEST, SOUTH_EAST, SOUTH_WEST}
                   /\ Abs(rank_diff - file_diff) # 0)
            THEN <<>>
            ELSE LET target_piece == get_piece_at(self, next_square) IN
                 IF target_piece = "."
                 THEN <<Move(square, next_square, "QUIET")>> \o
                      sliding_walk(self, square, direction, next_square, new_rank, new_file)
                 ELSE IF is_enemy(self, target_piece)
                 THEN <<Move(square, next_square, "CAPTURE")>>
                 ELSE <<>>

get_legal_sliding_moves(self, square, directions) ==
    Concat([i \in DOMAIN directions |->
               sliding_walk(self, square, directions[i], square, square \div 8, square % 8)])

\* Castling that tests the king's start and destination squares for attack
\* and leaves out the square the king passes over.
castling_moves_no_transit(self, square) ==
    LET home == IF self.white_to_move THEN E1 ELSE E8
        by == ~self.white_to_move
        king_right == IF self.white_to_move THEN self.castling_rights.K
                      ELSE self.castling_rights.k
        queen_right == IF self.white_to_move THEN self.castling_rights.Q
                       ELSE self.castling_rights.q
    IN (IF /\ king_right /\ square = home
           /\ get_piece_at(self, home + 1) = "."
           /\ get_piece_at(self, home + 2) = "."
           /\ ~is_square_attacked(self, home, by)
           /\ ~is_square_attacked(self, home + 2, by)
        THEN <<Move(home, home + 2, "KING_CASTLE")>>
        ELSE <<>>)
       \o
       (IF /\ queen_right /\ square = home
           /\ get_piece_at(self, home - 1) = "."
           /\ get_piece_at(self, home - 2) = "."
           /\ get_piece_at(self, home - 3) = "."
           /\ ~is_square_attacked(self, home, by)
           /\ ~is_square_attacked(self, home - 2, by)
        THEN <<Move(home, home - 2, "QUEEN_CASTLE")>>
        ELSE <<>>)

\* get_legal_king_moves, "Castling".
castling_moves(self, square) ==
    LET home == IF self.white_to_move THEN E1 ELSE E8
        by == ~self.white_to_move
        king_right == IF self.white_to_move THEN self.castling_rights.K
                      ELSE self.castling_rights.k
        queen_right == IF self.white_to_move THEN self.castling_rights.Q
                       ELSE self.castling_rights.q
    IN (IF /\ king_right /\ square = home
           /\ get_piece_at(self, home + 1) = "."
           /\ get_piece_at(self, home + 2) = "."
           /\ ~is_square_attacked(self, home, by)
           /\ ~is_square_attacked(self, home + 1, by)
           /\ ~is_square_attacked(self, home + 2, by)
        THEN <<Move(home, home + 2, "KING_CASTLE")>>
        ELSE <<>>)
       \o
       (IF /\ queen_right /\ square = home
           /\ get_piece_at(self, home - 1) = "."
           /\ get_piece_at(self, home - 2) = "."
           /\ get_piece_at(self, home - 3) = "."
           /\ ~is_square_attacked(self, home, by)
           /\ ~is_square_attacked(self, home - 1, by)
           /\ ~is_square_attacked(self, home - 2, by)
        THEN <<Move(home, home - 2, "QUEEN_CASTLE")>>
        ELSE <<>>)

get_legal_king_moves(self, square) ==
    offset_moves(self, square, king_moves) \o castling_moves(self, square)

\* get_legal_moves, the first loop: the moves of every piece of the side to
\* move, squares in index order.
pseudo_legal_moves(self) ==
    LET of_square(square) ==
            LET piece == get_piece_at(self, square)
                piece_type == upper(piece)
            IN IF piece = "." \/ is_enemy(self, piece) THEN <<>>
               ELSE CASE piece_type = "P" -> get_legal_pawn_moves(self, square)
                      [] piece_type = "N" -> get_legal_knight_moves(self, square)
                      [] piece_type = "B" ->
                             get_legal_sliding_moves(self, square, diagonal_directions)
                      [] piece_type = "R" ->
                             get_legal_sliding_moves(self, square, straight_directions)
                      [] piece_type = "Q" ->
                             get_legal_sliding_moves(self, square, queen_directions)
                      [] piece_type = "K" -> get_legal_king_moves(self, square)
    IN Concat([i \in 1..64 |-> of_square(i - 1)])

RECURSIVE filter_moves(_, _, _, _)
\* get_legal_moves, "Filter out moves that would leave king in check": each
\* move is tried with make_move and the state copied before the try is put
\* back.
filter_moves(self, moves, i, legal) ==
    IF i > Len(moves) THEN [board |-> self, moves |-> legal]
    ELSE LET old_state == self
             tried == make_move(self, moves[i])
         IN filter_moves(restore_state(tried.board, old_state), moves, i + 1,
                         IF tried.ok THEN Append(legal, moves[i]) ELSE legal)

\* Board.get_legal_moves: [board, moves], moves the returned list, board the
\* object's state after the call.
get_legal_moves(self) == filter_moves(self, pseudo_legal_moves(self), 1, <<>>)

is_checkmate_in_check(self) ==
    [board |-> self, result |-> is_in_check(self, self.white_to_move)]

\* Board.is_checkmate: [board, result], board the object's state after the
\* call; get_legal_moves is called only when the side to move is in check.
\* (A value bound as r \in {e} is computed once.)
is_checkmate(self) ==
    IF ~is_in_check(self, self.white_to_move)
    THEN [board |-> self, result |-> FALSE]
    ELSE CHOOSE out \in {[board |-> r.board, result |-> Len(r.moves) = 0] :
                             r \in {get_legal_moves(self)}} : TRUE

\* Board.is_stalemate: [board, result]; get_legal_moves is called only when
\* the side to move is not in check.
is_stalemate(self) ==
    IF is_in_check(self, self.white_to_move)
    THEN [board |-> self, result |-> FALSE]
    ELSE CHOOSE out \in {[board |-> r.board, result |-> Len(r.moves) = 0] :
                             r \in {get_legal_moves(self)}} : TRUE

(***************************************************************************)
(* agent/evaluation.py                                                     *)
(***************************************************************************)
CHECKMATE_SCORE == 20000

\* evaluate's return for a checkmate found by is_checkmate.
checkmate_return(checkmate) ==
    [board |-> checkmate.board, terminal |-> "checkmate",
     score |-> IF checkmate.board.white_to_move THEN -CHECKMATE_SCORE ELSE CHECKMATE_SCORE]

\* evaluate's return after is_stalemate; terminal is "none" when evaluate
\* goes on to the heuristic terms.
stalemate_return(stalemate) ==
    [board |-> stalemate.board,
     terminal |-> IF stalemate.result THEN "stalemate" ELSE "none",
     score |-> 0]

evaluate_terminal_no_stalemate(self) ==
    CHOOSE out \in
        {IF checkmate.result THEN checkmate_return(checkmate)
         ELSE [board |-> checkmate.board, terminal |-> "none", score |-> 0] :
             checkmate \in {is_checkmate(self)}} : TRUE

\* Evaluation.evaluate, "Quick terminal position detection": the two calls
\* on the board and the values returned at once for a checkmate and for a
\* stalemate; the heuristic terms that follow read the board and write only
\* the Evaluation object.
evaluate_terminal(self) ==
    CHOOSE out \in
        UNION {IF checkmate.result THEN {checkmate_return(checkmate)}
               ELSE {stalemate_return(stalemate) :
                         stalemate \in {is_stalemate(checkmate.board)}} :
                   checkmate \in {is_checkmate(self)}} : TRUE

\* The piece types in the order of the keys of white_piece_attacks and
\* black_piece_attacks (and of EXCHANGE_VALUES).
PieceTypes == <<"P", "N", "B", "R", "Q", "K">>

\* Evaluation.EXCHANGE_VALUES.get(piece_type, 0)
EXCHANGE_VALUES(piece_type) ==
    CASE piece_type = "P" -> 100
      [] piece_type = "N" -> 325
      [] piece_type = "B" -> 335
      [] piece_type = "R" -> 500
      [] piece_type = "Q" -> 975
      [] piece_type = "K" -> 20000
      [] OTHER -> 0

EXCHANGE_THRESHOLD == 20

RECURSIVE sort_pieces_by_value(_)
\* Evaluation._sort_pieces_by_value: sorted() by exchange value, stable.
sort_pieces_by_value(pieces) ==
    IF Len(pieces) = 0 THEN <<>>
    ELSE LET rest == sort_pieces_by_value(Tail(pieces))
             value == EXCHANGE_VALUES(Head(pieces))
             before == SelectSeq(rest, LAMBDA x : EXCHANGE_VALUES(x) < value)
             after == SelectSeq(rest, LAMBDA x : EXCHANGE_VALUES(x) >= value)
         IN before \o <<Head(pieces)>> \o after

RECURSIVE exchange_sequence(_, _, _, _)
\* _evaluate_single_exchange, "Simulate the exchange sequence": the loop
\* from index i (1-based here) on; the value of current_value at its end.
exchange_sequence(i, current_value, attacker_list, defender_list) ==
    IF i > Len(attacker_list) \/ i > Len(defender_list) THEN current_value
    ELSE LET captured == -current_value + EXCHANGE_VALUES(attacker_list[i]) IN
         IF captured < -EXCHANGE_THRESHOLD THEN captured
         ELSE LET recaptured == -captured + EXCHANGE_VALUES(defender_list[i]) IN
              IF recaptured < -EXCHANGE_THRESHOLD THEN recaptured
              ELSE exchange_sequence(i + 1, recaptured, attacker_list, defender_list)

\* Evaluation._evaluate_single_exchange as a function of the type of the
\* piece on the target square and of the lists _get_attackers_to_square
\* returns for the two sides.
evaluate_single_exchange(target_type, attackers, defenders) ==
    IF Len(attackers) = 0 THEN 0
    ELSE LET current_value ==
                 exchange_sequence(1, EXCHANGE_VALUES(target_type),
                                   sort_pieces_by_value(attackers),
                                   sort_pieces_by_value(defenders))
         IN IF current_value < 0 THEN -current_value ELSE 0

\* Evaluation._popcount of a bitboard held as the set of its bit numbers.
popcount(bitboard) == Cardinality(bitboard)

\* Evaluation._get_lsb
get_lsb(bitboard) ==
    IF bitboard = {} THEN -1 ELSE CHOOSE b \in bitboard : \A c \in bitboard : b <= c

\* Evaluation._get_msb
get_msb(bitboard) ==
    IF bitboard = {} THEN -1 ELSE CHOOSE b \in bitboard : \A c \in bitboard : b >= c

\* Evaluation.FILE_MASKS[i] = 0x0101010101010101 << i
FILE_MASKS(i) == {s \in Squares : s % 8 = i}

\* Evaluation.RANK_MASKS[i] = 0xFF << (8 * i)
RANK_MASKS(i) == {s \in Squares : s \div 8 = i}

\* Evaluation.DIAGONAL_MASKS[i]: entry 0 is 0x8040201008040201 (a1-h8),
\* entry i the diagonal that starts i ranks higher on the a-file.
DIAGONAL_MASKS(i) == {s \in Squares : (s \div 8) - (s % 8) = i}

\* Evaluation.ANTI_DIAGONAL_MASKS[i]: entry 0 is 0x0102040810204080 (h1-a8),
\* entry i the anti-diagonal that ends i files lower on rank 1.
ANTI_DIAGONAL_MASKS(i) == {s \in Squares : (s \div 8) + (s % 8) = 7 - i}

\* Evaluation.KNIGHT_ATTACKS[file]: the squares one rank up and two files
\* aside, and two ranks up and one file aside, of a knight on rank 1.
KNIGHT_ATTACKS(file) ==
    {8 * d[1] + file + d[2] :
         d \in {e \in {<<1, -2>>, <<1, 2>>, <<2, -1>>, <<2, 1>>} :
                   0 <= file + e[2] /\ file + e[2] < 8}}

\* Evaluation.KING_ATTACKS[file]: the neighbours on rank 1 and rank 2 of a
\* king on rank 1.
KING_ATTACKS(file) ==
    {8 * d[1] + file + d[2] :
         d \in {e \in {<<0, -1>>, <<0, 1>>, <<1, -1>>, <<1, 0>>, <<1, 1>>} :
                   0 <= file + e[2] /\ file + e[2] < 8}}

\* Evaluation._get_pawn_attacks: a left shift may set bits above 63, a right
\* shift drops the bits that fall below 0.
get_pawn_attacks(pawns, is_white) ==
    IF is_white
    THEN {p + 7 : p \in pawns \ FILE_MASKS(0)} \cup {p + 9 : p \in pawns \ FILE_MASKS(7)}
    ELSE {p - 9 : p \in {q \in pawns \ FILE_MASKS(0) : q >= 9}}
         \cup {p - 7 : p \in {q \in pawns \ FILE_MASKS(7) : q >= 7}}

\* (pattern << (8 * (square >> 3))) & 0xFFFFFFFFFFFFFFFF
shift_pattern(pattern, square) ==
    {b + 8 * (square \div 8) : b \in pattern} \cap Squares

\* Evaluation._get_knight_attacks
get_knight_attacks(knights) ==
    UNION {shift_pattern(KNIGHT_ATTACKS(k % 8), k) : k \in knights}

\* Evaluation._get_king_attacks: the pattern of the lowest king bit.
get_king_attacks(king) ==
    IF king = {} THEN {}
    ELSE shift_pattern(KING_ATTACKS(get_lsb(king) % 8), get_lsb(king))

\* Evaluation._get_sliding_attacks(square, mask, blockers)
ev_get_sliding_attacks(square, mask, blockers) ==
    LET forward_ray == IF square < 63 THEN {s \in mask : s >= square} ELSE {}
        backward_ray == IF square > 0 THEN {s \in mask : s < square} ELSE {}
        forward_blocker == forward_ray \cap blockers
        backward_blocker == backward_ray \cap blockers
    IN (IF forward_blocker # {}
        THEN {s \in forward_ray : s < get_lsb(forward_blocker)}
        ELSE forward_ray)
       \cup
       (IF backward_blocker # {}
        THEN {s \in backward_ray : s >= 63 - get_msb(backward_blocker)}
        ELSE backward_ray)

\* Evaluation._get_diagonal_attacks
get_diagonal_attacks(all_pieces, square) ==
    LET rank == square \div 8
        file == square % 8
        diag_index == 7 + file - rank
        anti_diag_index == file + rank
    IN (IF 0 <= diag_index /\ diag_index < 8
        THEN ev_get_sliding_attacks(square, DIAGONAL_MASKS(diag_index),
                                    all_pieces \cap DIAGONAL_MASKS(diag_index))
        ELSE {})
       \cup
       (IF 0 <= anti_diag_index /\ anti_diag_index < 8
        THEN ev_get_sliding_attacks(square, ANTI_DIAGONAL_MASKS(anti_diag_index),
                                    all_pieces \cap ANTI_DIAGONAL_MASKS(anti_diag_index))
        ELSE {})

\* Evaluation._get_orthogonal_attacks
get_orthogonal_attacks(all_pieces, square) ==
    ev_get_sliding_attacks(square, RANK_MASKS(square \div 8),
                           all_pieces \cap RANK_MASKS(square \div 8))
    \cup ev_get_sliding_attacks(square, FILE_MASKS(square % 8),
                                all_pieces \cap FILE_MASKS(square % 8))

\* Evaluation._get_bishop_attacks
get_bishop_attacks(all_pieces, bishops) ==
    UNION {get_diagonal_attacks(all_pieces, b) : b \in bishops}

\* Evaluation._get_rook_attacks
get_rook_attacks(all_pieces, rooks) ==
    UNION {get_orthogonal_attacks(all_pieces, r) : r \in rooks}

\* Evaluation._get_queen_attacks
get_queen_attacks(all_pieces, queens) ==
    UNION {get_diagonal_attacks(all_pieces, q) \cup get_orthogonal_attacks(all_pieces, q) :
               q \in queens}

\* The bitboards Evaluation.__init__ caches from the twelve piece bitboards.
ev_white_pieces(self) ==
    self.white_pawns \cup self.white_knights \cup self.white_bishops
    \cup self.white_rooks \cup self.white_queens \cup self.white_king

ev_black_pieces(self) ==
    self.black_pawns \cup self.black_knights \cup self.black_bishops
    \cup self.black_rooks \cup self.black_queens \cup self.black_king

ev_all_pieces(self) == ev_white_pieces(self) \cup ev_black_pieces(self)

\* _init_attack_maps: white_piece_attacks, a function on the piece types.
white_piece_attacks(self) ==
    [t \in {PieceTypes[i] : i \in DOMAIN PieceTypes} |->
        CASE t = "P" -> get_pawn_attacks(self.white_pawns, TRUE)
          [] t = "N" -> get_knight_attacks(self.white_knights)
          [] t = "B" -> get_bishop_attacks(ev_all_pieces(self), self.white_bishops)
          [] t = "R" -> get_rook_attacks(ev_all_pieces(self), self.white_rooks)
          [] t = "Q" -> get_queen_attacks(ev_all_pieces(self), self.white_queens)
          [] t = "K" -> get_king_attacks(self.white_king)]

\* _init_attack_maps: black_piece_attacks.
black_piece_attacks(self) ==
    [t \in {PieceTypes[i] : i \in DOMAIN PieceTypes} |->
        CASE t = "P" -> get_pawn_attacks(self.black_pawns, FALSE)
          [] t = "N" -> get_knight_attacks(self.black_knights)
          [] t = "B" -> get_bishop_attacks(ev_all_pieces(self), self.black_bishops)
          [] t = "R" -> get_rook_attacks(ev_all_pieces(self), self.black_rooks)
          [] t = "Q" -> get_queen_attacks(ev_all_pieces(self), self.black_queens)
          [] t = "K" -> get_king_attacks(self.black_king)]

RECURSIVE sum_from(_, _, _)
\* The bits from bit i on of carry * 2^i plus the arithmetic sum of the
\* integers whose bit sets are the values of maps.
sum_from(i, carry, maps) ==
    IF carry = 0 /\ \A t \in DOMAIN maps : \A b \in maps[t] : b < i THEN {}
    ELSE LET c == carry + Cardinality({t \in DOMAIN maps : i \in maps[t]})
         IN (IF c % 2 = 1 THEN {i} ELSE {}) \cup sum_from(i + 1, c \div 2, maps)

\* sum(piece_attacks.values()): the maps are added as integers, so a bit
\* set in two of them carries into the next bit.
sum_attacks(maps) == sum_from(0, 0, maps)

\* Evaluation.PIECE_VALUES of the piece types _evaluate_material reads.
PIECE_VALUES(piece_type) ==
    CASE piece_type = "P" -> 100
      [] piece_type = "N" -> 320
      [] piece_type = "B" -> 330
      [] piece_type = "R" -> 500
      [] piece_type = "Q" -> 900
      [] piece_type = "K" -> 20000

\* _init_piece_data: piece_counts.
piece_counts(self) ==
    [white_pawns |-> popcount(self.white_pawns),
     white_knights |-> popcount(self.white_knights),
     white_bishops |-> popcount(self.white_bishops),
     white_rooks |-> popcount(self.white_rooks),
     white_queens |-> popcount(self.white_queens),
     black_pawns |-> popcount(self.black_pawns),
     black_knights |-> popcount(self.black_knights),
     black_bishops |-> popcount(self.black_bishops),
     black_rooks |-> popcount(self.black_rooks),
     black_queens |-> popcount(self.black_queens)]

\* Evaluation._calculate_game_phase
calculate_game_phase(self) ==
    LET counts == piece_counts(self)
        current_phase ==
            256 - (16 - (counts.white_pawns + counts.black_pawns)) * 4
                - (4 - (counts.white_knights + counts.black_knights)) * 8
                - (4 - (counts.white_bishops + counts.black_bishops)) * 8
                - (4 - (counts.white_rooks + counts.black_rooks)) * 16
                - (2 - (counts.white_queens + counts.black_queens)) * 32
    IN IF current_phase > 0 THEN current_phase ELSE 0

\* Evaluation._evaluate_material
evaluate_material(self) ==
    LET counts == piece_counts(self) IN
      counts.white_pawns * PIECE_VALUES("P") + counts.white_knights * PIECE_VALUES("N")
    + counts.white_bishops * PIECE_VALUES("B") + counts.white_rooks * PIECE_VALUES("R")
    + counts.white_queens * PIECE_VALUES("Q")
    - counts.black_pawns * PIECE_VALUES("P") - counts.black_knights * PIECE_VALUES("N")
    - counts.black_bishops * PIECE_VALUES("B") - counts.black_rooks * PIECE_VALUES("R")
    - counts.black_queens * PIECE_VALUES("Q")
    + (IF counts.white_bishops >= 2 THEN 30 ELSE 0)
    - (IF counts.black_bishops >= 2 THEN 30 ELSE 0)

\* Evaluation._get_piece_type_at_square; "" when no piece of the colour is
\* on the square.
get_piece_type_at_square(self, square, is_white) ==
    LET pieces == IF is_white
                  THEN <<self.white_pawns, self.white_knights, self.white_bishops,
                         self.white_rooks, self.white_queens, self.white_king>>
                  ELSE <<self.black_pawns, self.black_knights, self.black_bishops,
                         self.black_rooks, self.black_queens, self.black_king>>
        found == {i \in DOMAIN PieceTypes : square \in pieces[i]}
    IN IF found = {} THEN ""
       ELSE PieceTypes[CHOOSE i \in found : \A j \in found : i <= j]

\* Evaluation._get_attackers_to_square on one of the two attack dicts.
get_attackers_to_square(piece_attacks, square) ==
    SelectSeq(PieceTypes, LAMBDA t : square \in piece_attacks[t])

RECURSIVE SumOver(_, _)
\* The sum of value[x] over the elements x of a finite set.
SumOver(set, value) ==
    IF set = {} THEN 0
    ELSE LET x == CHOOSE y \in set : TRUE IN value[x] + SumOver(set \ {x}, value)

\* Evaluation._evaluate_piece_exchanges for the maps made by __init__.
evaluate_piece_exchanges(self, white_maps, black_maps, white_attacks, black_attacks, is_white) ==
    LET defender_pieces == IF is_white THEN ev_black_pieces(self) ELSE ev_white_pieces(self)
        attacked_pieces == (IF is_white THEN white_attacks ELSE black_attacks)
                           \cap defender_pieces
        exchange_value ==
            [target_square \in attacked_pieces |->
                evaluate_single_exchange(
                    get_piece_type_at_square(self, target_square, ~is_white),
                    get_attackers_to_square(IF is_white THEN white_maps ELSE black_maps,
                                            target_square),
                    get_attackers_to_square(IF is_white THEN black_maps ELSE white_maps,
                                            target_square))]
    IN IF is_white THEN SumOver(attacked_pieces, exchange_value)
       ELSE -SumOver(attacked_pieces, exchange_value)

\* _evaluate_exchanges, "Evaluate hanging pieces": white_hanging and
\* black_hanging.
hanging_pieces(self, white_attacks, black_attacks) ==
    [white |-> (black_attacks \cap ev_white_pieces(self)) \ white_attacks,
     black |-> (white_attacks \cap ev_black_pieces(self)) \ black_attacks]

\* Evaluation._evaluate_exchanges
evaluate_exchanges(self) ==
    LET white_maps == white_piece_attacks(self)
        black_maps == black_piece_attacks(self)
        white_attacks == sum_attacks(white_maps)
        black_attacks == sum_attacks(black_maps)
        hanging == hanging_pieces(self, white_attacks, black_attacks)
    IN - SumOver(hanging.white,
                 [sq \in hanging.white |->
                     EXCHANGE_VALUES(get_piece_type_at_square(self, sq, TRUE))])
       + SumOver(hanging.black,
                 [sq \in hanging.black |->
                     EXCHANGE_VALUES(get_piece_type_at_square(self, sq, FALSE))])
       + evaluate_piece_exchanges(self, white_maps, black_maps, white_attacks,
                                  black_attacks, TRUE)
       + evaluate_piece_exchanges(self, white_maps, black_maps, white_attacks,
                                  black_attacks, FALSE)

\* Evaluation.PASSED_PAWN_BONUS[index]; the list has the indices 0..7.
PASSED_PAWN_BONUS(index) == <<0, 10, 20, 40, 60, 90, 130, 180>>[index + 1]

\* Evaluation.KING_SHIELD_BONUS
KING_SHIELD_BONUS == <<15, 10, 5>>

\* bitboard - 1 of a non-empty bitboard: the lowest bit is cleared and all
\* the bits below it are set.
minus_one(bitboard) ==
    (bitboard \ {get_lsb(bitboard)}) \cup {b \in Squares : b < get_lsb(bitboard)}

\* (bitboard << 1) - 1 of a non-empty bitboard.
shift_minus_one(bitboard) ==
    ({b + 1 : b \in bitboard} \ {get_lsb(bitboard) + 1})
    \cup {b \in Squares : b <= get_lsb(bitboard)}

\* _evaluate_pawn_structure, "Doubled pawns", for one file.
doubled_pawns(self, i) ==
    LET wp_count == popcount(self.white_pawns \cap FILE_MASKS(i))
        bp_count == popcount(self.black_pawns \cap FILE_MASKS(i))
    IN -15 * (IF wp_count > 1 THEN wp_count - 1 ELSE 0)
       + 15 * (IF bp_count > 1 THEN bp_count - 1 ELSE 0)

\* _evaluate_pawn_structure, "Passed pawns and isolated pawns", for one file.
passed_and_isolated(self, i) ==
    LET file_mask == FILE_MASKS(i)
        adjacent_files == (IF i > 0 THEN FILE_MASKS(i - 1) ELSE {})
                          \cup (IF i < 7 THEN FILE_MASKS(i + 1) ELSE {})
        wp_file == self.white_pawns \cap file_mask
        bp_file == self.black_pawns \cap file_mask
    IN (IF wp_file # {}
        THEN (IF self.white_pawns \cap adjacent_files = {} THEN -25 ELSE 0)
             + (IF (self.black_pawns \cap file_mask)
                   \cup (self.black_pawns \cap adjacent_files \cap minus_one(wp_file)) = {}
                THEN PASSED_PAWN_BONUS(7 - (get_msb(wp_file) \div 8))
                ELSE 0)
        ELSE 0)
       +
       (IF bp_file # {}
        THEN (IF self.black_pawns \cap adjacent_files = {} THEN 25 ELSE 0)
             - (IF (self.white_pawns \cap file_mask)
                   \cup (self.white_pawns \cap adjacent_files \cap shift_minus_one(bp_file))
                   = {}
                THEN PASSED_PAWN_BONUS((get_msb(bp_file) + 1) \div 8)
                ELSE 0)
        ELSE 0)

\* Evaluation._evaluate_pawn_structure
evaluate_pawn_structure(self) ==
    SumOver(0..7, [i \in 0..7 |-> doubled_pawns(self, i) + passed_and_isolated(self, i)])

\* _evaluate_piece_activity, "Open and semi-open files for rooks", one file.
rook_files(self, i) ==
    LET file_mask == FILE_MASKS(i)
        white_file_pawns == self.white_pawns \cap file_mask
        black_file_pawns == self.black_pawns \cap file_mask
    IN IF white_file_pawns \cup black_file_pawns = {}
       THEN 25 * popcount(self.white_rooks \cap file_mask)
            - 25 * popcount(self.black_rooks \cap file_mask)
       ELSE (IF white_file_pawns = {}
             THEN 15 * popcount(self.white_rooks \cap file_mask) ELSE 0)
            - (IF black_file_pawns = {}
               THEN 15 * popcount(self.black_rooks \cap file_mask) ELSE 0)

\* _evaluate_piece_activity, "Knight outposts".
knight_outposts(self) ==
    LET white_pawn_attacks ==
            {p - 7 : p \in {q \in self.white_pawns \ FILE_MASKS(0) : q >= 7}}
            \cup {p - 9 : p \in {q \in self.white_pawns \ FILE_MASKS(7) : q >= 9}}
        black_pawn_attacks ==
            {p + 9 : p \in self.black_pawns \ FILE_MASKS(0)}
            \cup {p + 7 : p \in self.black_pawns \ FILE_MASKS(7)}
        white_outposts ==
            ((self.white_knights \cap white_pawn_attacks) \ black_pawn_attacks)
            \cap (RANK_MASKS(3) \cup RANK_MASKS(4) \cup RANK_MASKS(5))
        black_outposts ==
            ((self.black_knights \cap black_pawn_attacks) \ white_pawn_attacks)
            \cap (RANK_MASKS(2) \cup RANK_MASKS(3) \cup RANK_MASKS(4))
    IN 20 * popcount(white_outposts) - 20 * popcount(black_outposts)

\* _evaluate_piece_activity, "Bishop mobility", for one mask of
\* DIAGONAL_MASKS + ANTI_DIAGONAL_MASKS.
bishop_mobility(self, diag_mask) ==
    (IF self.white_bishops \cap diag_mask # {}
     THEN popcount(diag_mask \ ev_white_pieces(self)) * 4 ELSE 0)
    - (IF self.black_bishops \cap diag_mask # {}
       THEN popcount(diag_mask \ ev_black_pieces(self)) * 4 ELSE 0)

\* Evaluation._evaluate_piece_activity
evaluate_piece_activity(self) ==
    SumOver(0..7, [i \in 0..7 |-> rook_files(self, i)])
    + knight_outposts(self)
    + SumOver(0..7, [i \in 0..7 |-> bishop_mobility(self, DIAGONAL_MASKS(i))])
    + SumOver(0..7, [i \in 0..7 |-> bishop_mobility(self, ANTI_DIAGONAL_MASKS(i))])

\* Evaluation._get_king_zone
get_king_zone(king_square) ==
    LET rank == king_square \div 8
        file == king_square % 8
        files == {f \in 0..7 : file - 1 <= f /\ f <= file + 1}
    IN {r * 8 + f : r \in {x \in 0..7 : rank - 1 <= x /\ x <= rank + 1}, f \in files}
       \cup (IF rank = 0 \/ rank = 7
             THEN {(IF rank = 0 THEN 1 ELSE 6) * 8 + f : f \in files}
             ELSE {})

\* Evaluation._get_adjacent_files, as the set of the file numbers.
get_adjacent_files(file) == {f \in 0..7 : file - 1 <= f /\ f <= file + 1}

\* Evaluation._count_attacks_near_king
count_attacks_near_king(self, king_square, is_white_king) ==
    popcount(get_king_zone(king_square)
             \cap (IF is_white_king THEN ev_black_pieces(self) ELSE ev_white_pieces(self)))

\* Evaluation._evaluate_king_safety
evaluate_king_safety(self) ==
    IF calculate_game_phase(self) > 128
    THEN LET white_king_square == get_lsb(self.white_king)
             black_king_square == get_lsb(self.black_king)
             white_pawn_shield == self.white_pawns \cap get_king_zone(white_king_square)
             black_pawn_shield == self.black_pawns \cap get_king_zone(black_king_square)
         IN SumOver(0..2, [i \in 0..2 |->
                popcount(white_pawn_shield
                         \cap (IF white_king_square >= 48 THEN RANK_MASKS(7 - i)
                               ELSE RANK_MASKS(i)))
                * KING_SHIELD_BONUS[i + 1]])
            - SumOver(0..2, [i \in 0..2 |->
                popcount(black_pawn_shield
                         \cap (IF black_king_square < 16 THEN RANK_MASKS(i)
                               ELSE RANK_MASKS(7 - i)))
                * KING_SHIELD_BONUS[i + 1]])
            - 15 * Cardinality({f \in get_adjacent_files(white_king_square % 8) :
                                   self.white_pawns \cap FILE_MASKS(f) = {}})
            + 15 * Cardinality({f \in get_adjacent_files(black_king_square % 8) :
                                   self.black_pawns \cap FILE_MASKS(f) = {}})
            - 10 * count_attacks_near_king(self, white_king_square, TRUE)
            + 10 * count_attacks_near_king(self, black_king_square, FALSE)
    ELSE 0

\* Evaluation._evaluate_position
evaluate_position(self) ==
    evaluate_pawn_structure(self) + evaluate_piece_activity(self)
    + evaluate_king_safety(self)

\* int(x / 256): the quotient rounded towards zero.
int_div_256(x) == IF x >= 0 THEN x \div 256 ELSE -((-x) \div 256)

\* evaluate, the branch taken when the material score is within -2000..2000:
\* the terms are added, scaled by game_phase / 256 and the tempo bonus is
\* added.
detailed_score(self, material, position, exchanges, game_phase) ==
    int_div_256((material + position + exchanges) * game_phase)
    + (IF self.white_to_move THEN 15 ELSE -15)

\* Evaluation.evaluate from "Base material and positional evaluation" on:
\* the terms and the value returned for a position that is no checkmate and
\* no stalemate.
evaluate_heuristic(self) ==
    CHOOSE out \in
        {IF -2000 <= material /\ material <= 2000
         THEN CHOOSE detailed \in
                  {[material |-> material, detailed |-> TRUE, game_phase |-> game_phase,
                    position |-> position, exchanges |-> exchanges,
                    hanging |-> hanging_pieces(self,
                                               sum_attacks(white_piece_attacks(self)),
                                               sum_attacks(black_piece_attacks(self))),
                    score |-> detailed_score(self, material, position, exchanges,
                                             game_phase)] :
                       position \in {evaluate_position(self)},
                       exchanges \in {evaluate_exchanges(self)}} : TRUE
         ELSE [material |-> material, detailed |-> FALSE, game_phase |-> game_phase,
               position |-> 0, exchanges |-> 0, hanging |-> [white |-> {}, black |-> {}],
               score |-> material] :
             material \in {evaluate_material(self)},
             game_phase \in {calculate_game_phase(self)}} : TRUE

\* Evaluation(board).evaluate(): the board after the call, the kind of
\* terminal position found, the value returned and the terms it was made
\* of. The two terminal tests change castling_rights only, so the bitboards
\* __init__ cached are those of the board the terms are computed from.
evaluate(self) ==
    CHOOSE out \in
        {IF t.terminal = "none"
         THEN CHOOSE detail \in
                  {[board |-> t.board, terminal |-> t.terminal, score |-> h.score,
                    terms |-> h] : h \in {evaluate_heuristic(t.board)}} : TRUE
         ELSE [board |-> t.board, terminal |-> t.terminal, score |-> t.score,
               terms |-> [material |-> 0, detailed |-> FALSE,
                          game_phase |-> calculate_game_phase(self),
                          position |-> 0, exchanges |-> 0,
                          hanging |-> [white |-> {}, black |-> {}],
                          score |-> t.score]] :
             t \in {evaluate_terminal(self)}} : TRUE

(***************************************************************************)
(* The positions the boards are constructed from, as FEN strings.          *)
(***************************************************************************)
\* rnbqkbnr/pppppppp/8/8/8/8/PPPPPPPP/RNBQKBNR w KQkq - 0 1
\* board.py STARTING_FEN
STARTING_FEN ==
    <<"r", "n", "b", "q", "k", "b", "n", "r", "/", "p", "p", "p", "p", "p", "p", "p",
      "p", "/", "8", "/", "8", "/", "8", "/", "8", "/", "P", "P", "P", "P", "P", "P",
      "P", "P", "/", "R", "N", "B", "Q", "K", "B", "N", "R", " ", "w", " ", "K", "Q",
      "k", "q", " ", "-", " ", "0", " ", "1">>

\* r3k2r/p6p/8/8/8/8/P6P/R3K2R w KQkq - 0 1
\* both sides may castle either way, White to move
CastleWhiteFen ==
    <<"r", "3", "k", "2", "r", "/", "p", "6", "p", "/", "8", "/", "8", "/", "8", "/",
      "8", "/", "P", "6", "P", "/", "R", "3", "K", "2", "R", " ", "w", " ", "K", "Q",
      "k", "q", " ", "-", " ", "0", " ", "1">>

\* r3k2r/p6p/8/8/8/8/P6P/R3K2R b KQkq - 0 1
\* the same, Black to move
CastleBlackFen ==
    <<"r", "3", "k", "2", "r", "/", "p", "6", "p", "/", "8", "/", "8", "/", "8", "/",
      "8", "/", "P", "6", "P", "/", "R", "3", "K", "2", "R", " ", "b", " ", "K", "Q",
      "k", "q", " ", "-", " ", "0", " ", "1">>

\* 4k3/8/8/8/8/5r2/8/4K2R w K - 0 1
\* f1 is attacked by the rook on f3, g1 is not
TransitFen ==
    <<"4", "k", "3", "/", "8", "/", "8", "/", "8", "/", "8", "/", "5", "r", "2", "/",
      "8", "/", "4", "K", "2", "R", " ", "w", " ", "K", " ", "-", " ", "0", " ", "1">>

\* 4k3/8/8/8/3pP3/8/8/4K3 b - e3 0 2
\* Black may capture e4 en passant on e3
EnPassantBlackFen ==
    <<"4", "k", "3", "/", "8", "/", "8", "/", "8", "/", "3", "p", "P", "3", "/", "8",
      "/", "8", "/", "4", "K", "3", " ", "b", " ", "-", " ", "e", "3", " ", "0", " ",
      "2">>

\* 4k3/8/8/3Pp3/8/8/8/4K3 w - e6 0 3
\* White may capture e5 en passant on e6
EnPassantWhiteFen ==
    <<"4", "k", "3", "/", "8", "/", "8", "/", "3", "P", "p", "3", "/", "8", "/", "8",
      "/", "8", "/", "4", "K", "3", " ", "w", " ", "-", " ", "e", "6", " ", "0", " ",
      "3">>

\* 1n2k3/P7/8/8/8/8/7p/4K1N1 w - - 0 1
\* both sides promote, by a push or by a capture
PromotionFen ==
    <<"1", "n", "2", "k", "3", "/", "P", "7", "/", "8", "/", "8", "/", "8", "/", "8",
      "/", "7", "p", "/", "4", "K", "1", "N", "1", " ", "w", " ", "-", " ", "-", " ",
      "0", " ", "1">>

\* 4k3/4r3/8/8/8/8/4B3/4K3 w - - 0 1
\* the bishop on e2 is pinned to the king
PinFen ==
    <<"4", "k", "3", "/", "4", "r", "3", "/", "8", "/", "8", "/", "8", "/", "8", "/",
      "4", "B", "3", "/", "4", "K", "3", " ", "w", " ", "-", " ", "-", " ", "0", " ",
      "1">>

\* 4k3/8/8/8/8/8/6b1/4K2R b K - 0 1
\* the bishop may take the rook on its home corner
RookTakenFen ==
    <<"4", "k", "3", "/", "8", "/", "8", "/", "8", "/", "8", "/", "8", "/", "6", "b",
      "1", "/", "4", "K", "2", "R", " ", "b", " ", "K", " ", "-", " ", "0", " ", "1">>

\* rn2k1nr/p6p/8/8/8/8/P6P/RN2K1NR w KQkq - 0 1
\* the kings may move, the rooks on their corners may not
BlockedRooksFen ==
    <<"r", "n", "2", "k", "1", "n", "r", "/", "p", "6", "p", "/", "8", "/", "8", "/",
      "8", "/", "8", "/", "P", "6", "P", "/", "R", "N", "2", "K", "1", "N", "R", " ",
      "w", " ", "K", "Q", "k", "q", " ", "-", " ", "0", " ", "1">>

\* 6nk/6bp/8/8/8/8/8/R3K3 b Q - 12 9
\* the bishop may take the rook on a1 and the black king cannot move; the
\* counters are about to need two digits
RookCapturedFen ==
    <<"6", "n", "k", "/", "6", "b", "p", "/", "8", "/", "8", "/", "8", "/", "8", "/",
      "8", "/", "R", "3", "K", "3", " ", "b", " ", "Q", " ", "-", " ", "1", "2", " ",
      "9">>

\* rnb1kbnr/pppp1ppp/8/4p3/6Pq/5P2/PPPPP2P/RNBQKBNR w KQkq - 1 3
\* fool's mate: White is checkmated
FoolsMateFen ==
    <<"r", "n", "b", "1", "k", "b", "n", "r", "/", "p", "p", "p", "p", "1", "p", "p",
      "p", "/", "8", "/", "4", "p", "3", "/", "6", "P", "q", "/", "5", "P", "2", "/",
      "P", "P", "P", "P", "P", "2", "P", "/", "R", "N", "B", "Q", "K", "B", "N", "R",
      " ", "w", " ", "K", "Q", "k", "q", " ", "-", " ", "1", " ", "3">>

\* 7k/8/5QK1/8/8/8/8/8 w - - 0 1
\* White mates with Qg7 or Qf8 and stalemates with Qf7
MateInOneFen ==
    <<"7", "k", "/", "8", "/", "5", "Q", "K", "1", "/", "8", "/", "8", "/", "8", "/",
      "8", "/", "8", " ", "w", " ", "-", " ", "-", " ", "0", " ", "1">>

\* 7k/5Q2/6K1/8/8/8/8/8 b - - 0 1
\* Black is stalemated
StalemateFen ==
    <<"7", "k", "/", "5", "Q", "2", "/", "6", "K", "1", "/", "8", "/", "8", "/", "8",
      "/", "8", "/", "8", " ", "b", " ", "-", " ", "-", " ", "0", " ", "1">>

\* 7k/6Q1/6K1/8/8/8/8/8 b - - 0 1
\* Black is checkmated
BlackMatedFen ==
    <<"7", "k", "/", "6", "Q", "1", "/", "6", "K", "1", "/", "8", "/", "8", "/", "8",
      "/", "8", "/", "8", " ", "b", " ", "-", " ", "-", " ", "0", " ", "1">>

\* r3k3/8/8/8/8/8/4r3/4K3 w q - 0 1
\* White is in check and has three king moves
CheckFen ==
    <<"r", "3", "k", "3", "/", "8", "/", "8", "/", "8", "/", "8", "/", "8", "/", "4",
      "r", "3", "/", "4", "K", "3", " ", "w", " ", "q", " ", "-", " ", "0", " ", "1">>

StartFens == {STARTING_FEN, CastleWhiteFen, CastleBlackFen, TransitFen, EnPassantBlackFen,
              EnPassantWhiteFen, PromotionFen, PinFen, RookTakenFen, BlockedRooksFen,
              RookCapturedFen}

(***************************************************************************)
(* The state machine: a caller holding one Board calls get_legal_moves and *)
(* make_move on it.  legal_moves is the list the last get_legal_moves      *)
(* returned for the current position, last records the last call: its      *)
(* operation, argument, result and the board's state before it; calls      *)
(* counts the calls made.                                                  *)
(***************************************************************************)
NoMove == Move(None, None, "QUIET")

Range(seq) == {seq[i] : i \in DOMAIN seq}

\* The castling moves a caller may pass without having generated them.
CastleProbes == {Move(E1, G1, "KING_CASTLE"), Move(E1, C1, "QUEEN_CASTLE"),
                 Move(E8, G8, "KING_CASTLE"), Move(E8, C8, "QUEEN_CASTLE")}

\* Moves a caller may pass to make_move without taking them from
\* get_legal_moves: the unfiltered moves of the side to move and the
\* castling moves of either side (from a square that may be empty or hold a
\* piece of the side not to move).
ProbeMoves(self) == Range(pseudo_legal_moves(self)) \cup CastleProbes

Init ==
    /\ board \in {Board(fen) : fen \in StartFens}
    /\ legal_moves = <<>>
    /\ last = [op |-> "init", move |-> NoMove, ok |-> TRUE, generated |-> FALSE,
               pre |-> board]
    /\ calls = 0

GetLegalMoves ==
    /\ calls < MaxCalls
    /\ LET r == get_legal_moves(board)
       IN /\ board' = r.board
          /\ legal_moves' = r.moves
    /\ last' = [op |-> "get_legal_moves", move |-> NoMove, ok |-> TRUE,
                generated |-> FALSE, pre |-> board]
    /\ calls' = calls + 1

\* One call board.make_move(move).
MakeMove(move, generated) ==
    /\ calls < MaxCalls
    /\ LET r == make_move(board, move)
       IN /\ board' = r.board
          /\ last' = [op |-> "make_move", move |-> move, ok |-> r.ok,
                      generated |-> generated, pre |-> board]
          /\ legal_moves' = IF r.ok THEN <<>> ELSE legal_moves
          /\ calls' = calls + 1

\* make_move with a move of the list get_legal_moves returned.
MakeGeneratedMove == \E i \in DOMAIN legal_moves : MakeMove(legal_moves[i], TRUE)

\* make_move with a move it rejects.
MakeRejectedMove ==
    \E move \in ProbeMoves(board) : ~make_move(board, move).ok /\ MakeMove(move, FALSE)

\* make_move with a castling move the caller did not take from
\* get_legal_moves, whatever make_move answers.
MakeCastlingMove == \E move \in CastleProbes : MakeMove(move, FALSE)

Next == GetLegalMoves \/ MakeGeneratedMove \/ MakeRejectedMove

Spec == Init /\ [][Next]_vars

NextAny == GetLegalMoves \/ MakeGeneratedMove \/ MakeRejectedMove \/ MakeCastlingMove

SpecAny == Init /\ [][NextAny]_vars

(***************************************************************************)
(* A caller that asks get_legal_moves, is_checkmate and is_stalemate of a   *)
(* board it has constructed and evaluates it with                          *)
(* Evaluation(board).evaluate(); last records the answer (result) or the   *)
(* terminal kind and the score.                                            *)
(***************************************************************************)
\* rnbqkbnQ/pppppp2/8/8/8/8/PPPPPPP1/RNBQKBNR b KQq - 0 6
\* White promoted on h8: three queens and three rooks are on the board
ExtraQueenFen ==
    <<"r", "n", "b", "q", "k", "b", "n", "Q", "/", "p", "p", "p", "p", "p", "p", "2",
      "/", "8", "/", "8", "/", "8", "/", "8", "/", "P", "P", "P", "P", "P", "P", "P",
      "1", "/", "R", "N", "B", "Q", "K", "B", "N", "R", " ", "b", " ", "K", "Q", "q",
      " ", "-", " ", "0", " ", "6">>

\* 3QQQ2/8/8/8/8/8/k7/7K b - - 0 60
\* a material score above 2000
ThreeQueensFen ==
    <<"3", "Q", "Q", "Q", "2", "/", "8", "/", "8", "/", "8", "/", "8", "/", "8", "/",
      "k", "7", "/", "7", "K", " ", "b", " ", "-", " ", "-", " ", "0", " ", "6", "0">>

QueryFens ==
    StartFens \cup {FoolsMateFen, MateInOneFen, StalemateFen, BlackMatedFen, CheckFen,
                    ExtraQueenFen, ThreeQueensFen}

InitQuery ==
    /\ board \in {Board(fen) : fen \in QueryFens}
    /\ legal_moves = <<>>
    /\ last = [op |-> "init", move |-> NoMove, ok |-> TRUE, generated |-> FALSE,
               pre |-> board]
    /\ calls = 0

IsCheckmate ==
    /\ \E r \in {is_checkmate(board)} :
           /\ board' = r.board
           /\ last' = [op |-> "is_checkmate", result |-> r.result, pre |-> board]
    /\ UNCHANGED <<legal_moves, calls>>

IsStalemate ==
    /\ \E r \in {is_stalemate(board)} :
           /\ board' = r.board
           /\ last' = [op |-> "is_stalemate", result |-> r.result, pre |-> board]
    /\ UNCHANGED <<legal_moves, calls>>

\* Evaluation(board).evaluate(): the constructor only reads the board.
Evaluate ==
    /\ \E r \in {evaluate(board)} :
           /\ board' = r.board
           /\ last' = [op |-> "evaluate", terminal |-> r.terminal, score |-> r.score,
                       terms |-> r.terms, pre |-> board]
    /\ UNCHANGED <<legal_moves, calls>>

NextQuery == GetLegalMoves \/ IsCheckmate \/ IsStalemate \/ Evaluate

SpecQuery == InitQuery /\ [][NextQuery]_vars

(***************************************************************************)
(* _evaluate_single_exchange as a function of its inputs: the type of the  *)
(* target piece and the piece types of either side that attack the target  *)
(* square, each type at most once and in the order of the attack maps'     *)
(* keys.  The initial state holds the inputs, the action applies the       *)
(* function and records the gain.                                          *)
(***************************************************************************)
TypeLists ==
    {SelectSeq(PieceTypes, LAMBDA t : t \in S) : S \in SUBSET Range(PieceTypes)}

InitExchange ==
    /\ board = Board(STARTING_FEN)
    /\ legal_moves = <<>>
    /\ \E target \in Range(PieceTypes), attackers \in TypeLists, defenders \in TypeLists :
           last = [op |-> "init", target |-> target, attackers |-> attackers,
                   defenders |-> defenders, gain |-> 0]
    /\ calls = 0

EvaluateSingleExchange ==
    /\ last.op = "init"
    /\ last' = [last EXCEPT !.op = "_evaluate_single_exchange",
                            !.gain = evaluate_single_exchange(last.target, last.attackers,
                                                              last.defenders)]
    /\ UNCHANGED <<board, legal_moves, calls>>

SpecExchange == InitExchange /\ [][EvaluateSingleExchange]_vars

(***************************************************************************)
(* Board(fen) as a function of its argument: a caller constructs boards    *)
(* from strings whose first and last rank are drawn from RankInputs.       *)
(* last records the string and whether the constructor returned (ok) or    *)
(* raised; a constructor that raised leaves the caller with the board it   *)
(* had, at first Board().                                                  *)
(***************************************************************************)
RankInputs ==
    {<<"8">>,
     <<"4", "K", "2">>,
     <<"7">>,
     <<"p", "8">>,
     <<"8", "p">>,
     <<"9">>,
     <<"p", "p", "p", "p", "p", "p", "p", "p">>,
     <<"x", "7">>,
     <<"4", "?", "3">>,
     <<"4", "4">>}

FenInputs ==
    {r8 \o <<"/", "8", "/", "8", "/", "8", "/", "8", "/", "8", "/", "8", "/">> \o r1
        \o <<" ", "w", " ", "-", " ", "-", " ", "0", " ", "1">> :
     r8 \in RankInputs, r1 \in RankInputs}

InitFen ==
    /\ board = Board(STARTING_FEN)
    /\ legal_moves = <<>>
    /\ last = [op |-> "init", arg |-> <<>>, ok |-> TRUE]
    /\ calls = 0

NewBoard ==
    \E fen \in FenInputs :
        LET r == parse_fen(EmptyBoard, fen)
        IN /\ board' = IF r.ok THEN update_position_masks(r.board) ELSE board
           /\ last' = [op |-> "Board", arg |-> fen, ok |-> r.ok]
           /\ UNCHANGED <<legal_moves, calls>>

SpecFen == InitFen /\ [][NewBoard]_vars

(***************************************************************************)
(* Move.from_uci as a function of its argument: strings made of two        *)
(* squares and a suffix; last records the string, whether from_uci         *)
(* returned (ok) and the move it returned.                                 *)
(***************************************************************************)
UciSquares ==
    {<<"a", "1">>, <<"h", "8">>, <<"e", "7">>, <<"i", "1">>, <<"a", "9">>, <<"A", "1">>, <<"e">>}

UciSuffixes ==
    {<<>>, <<"q">>, <<"Q">>, <<"n">>, <<"b">>, <<"r">>, <<"k">>, <<"x">>, <<"q", "q">>, <<"1">>}

UciInputs == {a \o b \o c : a \in UciSquares, b \in UciSquares, c \in UciSuffixes}

InitUci ==
    /\ board = Board(STARTING_FEN)
    /\ legal_moves = <<>>
    /\ last = [op |-> "init", arg |-> <<>>, ok |-> TRUE, move |-> NoMove]
    /\ calls = 0

FromUci ==
    \E uci \in UciInputs :
        LET r == from_uci(uci)
        IN /\ last' = [op |-> "from_uci", arg |-> uci, ok |-> r.ok, move |-> r.move]
           /\ UNCHANGED <<board, legal_moves, calls>>

SpecUci == InitUci /\ [][FromUci]_vars

\* Attack queries: a board, a square and a colour are drawn, then one of
\* get_attacks(square) and is_square_attacked(square, by_white) is called.
InitAttacks ==
    /\ \E fen \in StartFens : board = Board(fen)
    /\ legal_moves = <<>>
    /\ \E square \in Squares, by_white \in BOOLEAN :
           last = [op |-> "init", square |-> square, by_white |-> by_white,
                   attacks |-> {}, result |-> FALSE]
    /\ calls = 0

\* One call board.get_attacks(square).
GetAttacks ==
    /\ last.op = "init"
    /\ last' = [last EXCEPT !.op = "get_attacks",
                            !.attacks = get_attacks(board, last.square)]
    /\ UNCHANGED <<board, legal_moves, calls>>

\* One call board.is_square_attacked(square, by_white).
IsSquareAttacked ==
    /\ last.op = "init"
    /\ last' = [last EXCEPT !.op = "is_square_attacked",
                            !.result = is_square_attacked(board, last.square,
                                                          last.by_white)]
    /\ UNCHANGED <<board, legal_moves, calls>>

NextAttacks == GetAttacks \/ IsSquareAttacked

SpecAttacks == InitAttacks /\ [][NextAttacks]_vars

(***************************************************************************)
(* Chess attack relations, stated from the rules of the game and not from  *)
(* the walks of is_square_attacked: the properties below compare the two.  *)
(***************************************************************************)
Sign(x) == IF x > 0 THEN 1 ELSE IF x < 0 THEN -1 ELSE 0

Max(x, y) == IF x >= y THEN x ELSE y

\* The squares strictly between two squares of one rank, file or diagonal.
Between(p, s) ==
    LET dr == (s \div 8) - (p \div 8)
        df == (s % 8) - (p % 8)
    IN {from_coords((p \div 8) + k * Sign(dr), (p % 8) + k * Sign(df)) :
            k \in 1..(Max(Abs(dr), Abs(df)) - 1)}

\* The piece standing on p attacks the square s.
PieceAttacks(self, p, s) ==
    LET piece == get_piece_at(self, p)
        dr == (s \div 8) - (p \div 8)
        df == (s % 8) - (p % 8)
        clear == \A m \in Between(p, s) : get_piece_at(self, m) = "."
        diagonal == Abs(dr) = Abs(df) /\ dr # 0
        straight == (dr = 0) # (df = 0)
    IN CASE piece = "P" -> dr = 1 /\ Abs(df) = 1
         [] piece = "p" -> dr = -1 /\ Abs(df) = 1
         [] piece \in {"N", "n"} -> {Abs(dr), Abs(df)} = {1, 2}
         [] piece \in {"K", "k"} -> Max(Abs(dr), Abs(df)) = 1
         [] piece \in {"B", "b"} -> diagonal /\ clear
         [] piece \in {"R", "r"} -> straight /\ clear
         [] piece \in {"Q", "q"} -> (diagonal \/ straight) /\ clear
         [] OTHER -> FALSE

\* The king of the given colour stands on a square that a piece of the other
\* colour attacks.
KingAttacked(self, white) ==
    \E k \in (IF white THEN self.white_king ELSE self.black_king) :
        \E p \in Squares :
            /\ IF white THEN islower(get_piece_at(self, p)) ELSE isupper(get_piece_at(self, p))
            /\ PieceAttacks(self, p, k)

\* The piece make_move found on the source square of the last call's move.
LastPiece == get_piece_at(last.pre, last.move.from_square)

MadeMove == last.op = "make_move" /\ last.ok

(***************************************************************************)
(* Properties of make_move and get_legal_moves.                            *)
(***************************************************************************)
\* C1: whenever make_move returns False, every field of the board (the
\* twelve bitboards, the three occupancy masks, the side to move, the
\* castling rights, the en-passant target and both counters) is what it was
\* before the call.
C1_FailedMoveLeavesBoard ==
    (last.op = "make_move" /\ ~last.ok) => board = last.pre

\* A move of a piece of the side to move was applied tentatively, changed
\* the bitboards, left the mover's king in check and was rejected.
C1_Witness ==
    /\ last.op = "make_move" /\ ~last.ok
    /\ LastPiece # "." /\ isupper(LastPiece) = last.pre.white_to_move
    /\ tentative_move(last.pre, last.move) # last.pre

\* C2: get_legal_moves leaves the board as it found it: bitboards, side to
\* move, all four castling rights, en-passant target and both counters.
C2_GetLegalMovesLeavesBoard ==
    last.op = "get_legal_moves" => board = last.pre

\* C3: get_legal_moves returns exactly the unfiltered moves of the side to
\* move after which the mover's king is not attacked, and after a
\* successful make_move of a generated move the side that moved is not in
\* check.
C3_LegalIffKingSafe ==
    /\ last.op = "get_legal_moves" =>
           legal_moves = SelectSeq(pseudo_legal_moves(last.pre),
                             LAMBDA m : ~KingAttacked(tentative_move(last.pre, m),
                                                      last.pre.white_to_move))
    /\ (MadeMove /\ last.generated) => ~KingAttacked(board, last.pre.white_to_move)

\* get_legal_moves returned some moves and filtered others out.
C3_Witness ==
    /\ last.op = "get_legal_moves"
    /\ Len(legal_moves) > 0
    /\ Len(legal_moves) < Len(pseudo_legal_moves(last.pre))

PieceSets(self) == [i \in DOMAIN PieceBitboards |-> self[PieceBitboards[i]]]

\* C4: after every make_move call, successful or not, with a generated or a
\* rejected move, all_pieces = white_pieces | black_pieces = the union of the
\* twelve bitboards, the twelve bitboards are pairwise disjoint, and
\* white_pieces and black_pieces are disjoint.
C4_MasksConsistent ==
    LET bbs == PieceSets(board)
    IN /\ board.all_pieces = board.white_pieces \cup board.black_pieces
       /\ board.all_pieces = UNION {bbs[i] : i \in DOMAIN bbs}
       /\ \A i, j \in DOMAIN bbs : i # j => bbs[i] \cap bbs[j] = {}
       /\ board.white_pieces \cap board.black_pieces = {}

\* A generated capture was made: a piece left the board.
C4_Witness ==
    /\ MadeMove /\ last.generated /\ last.move.flag = "CAPTURE"
    /\ Cardinality(board.all_pieces) < Cardinality(last.pre.all_pieces)

\* A generated castling move was made with the rook on its home corner.
CastledWithRook ==
    /\ MadeMove /\ last.generated /\ is_castling(last.move)
    /\ LET corner == IF last.move.flag = "KING_CASTLE"
                     THEN (IF last.pre.white_to_move THEN H1 ELSE H8)
                     ELSE (IF last.pre.white_to_move THEN A1 ELSE A8)
       IN get_piece_at(last.pre, corner) = (IF last.pre.white_to_move THEN "R" ELSE "r")

\* C5: after a successful make_move of a king, both castling rights of the
\* colour that moved are False and the opponent's are unchanged.
C5_KingMoveClearsOwnRights ==
    (MadeMove /\ upper(LastPiece) = "K") =>
        LET now == board.castling_rights
            was == last.pre.castling_rights
        IN IF last.pre.white_to_move
           THEN ~now.K /\ ~now.Q /\ now.k = was.k /\ now.q = was.q
           ELSE ~now.k /\ ~now.q /\ now.K = was.K /\ now.Q = was.Q

\* C6: a generated castling move, the rook on its home corner, moves the
\* king e->g and the rook h->f (king side) or the king e->c and the rook
\* a->d (queen side) on the mover's home rank in the one call, and no other
\* square changes.
C6_CastlingMovesKingAndRook ==
    CastledWithRook =>
        LET white == last.pre.white_to_move
            home == IF white THEN E1 ELSE E8
            king_side == last.move.flag = "KING_CASTLE"
            king_to == IF king_side THEN home + 2 ELSE home - 2
            rook_from == IF king_side THEN home + 3 ELSE home - 4
            rook_to == IF king_side THEN home + 1 ELSE home - 1
        IN /\ last.move.from_square = home /\ last.move.to_square = king_to
           /\ get_piece_at(last.pre, home) = (IF white THEN "K" ELSE "k")
           /\ get_piece_at(board, king_to) = (IF white THEN "K" ELSE "k")
           /\ get_piece_at(board, rook_to) = (IF white THEN "R" ELSE "r")
           /\ get_piece_at(board, home) = "."
           /\ get_piece_at(board, rook_from) = "."
           /\ \A s \in Squares \ {home, king_to, rook_from, rook_to} :
                  get_piece_at(board, s) = get_piece_at(last.pre, s)
           /\ \A i \in DOMAIN PieceBitboards :
                  Cardinality(board[PieceBitboards[i]]) =
                  Cardinality(last.pre[PieceBitboards[i]])

\* Black castled queen side with the rook on a8.
C6_Witness ==
    CastledWithRook /\ ~last.pre.white_to_move /\ last.move.flag = "QUEEN_CASTLE"

\* The square the king passes over in the last call's castling move is
\* attacked by the side not to move.
TransitAttacked ==
    LET white == last.pre.white_to_move
        home == IF white THEN E1 ELSE E8
    IN is_square_attacked(last.pre,
                          IF last.move.flag = "KING_CASTLE" THEN home + 1 ELSE home - 1,
                          ~white)

\* C7: make_move with a castling move while the square the king passes over
\* is attacked returns False and leaves the board unchanged.
C7_CastlingThroughAttackRejected ==
    (last.op = "make_move" /\ is_castling(last.move) /\ TransitAttacked) =>
        (~last.ok /\ board = last.pre)

\* C8: after a successful make_move, en_passant_target is the square passed
\* over when the move was a double pawn push, and None after any other move.
C8_EnPassantTargetUpdated ==
    MadeMove =>
        board.en_passant_target =
            IF last.move.flag = "DOUBLE_PAWN_PUSH"
            THEN (last.move.from_square + last.move.to_square) \div 2
            ELSE None

\* C9: a generated en-passant capture removes the enemy pawn behind the
\* target (file of the target, rank of the capturing pawn's source) and puts
\* the capturing pawn on the target square, which was empty.
C9_EnPassantRemovesPawn ==
    (MadeMove /\ last.generated /\ last.move.flag = "EN_PASSANT") =>
        LET white == last.pre.white_to_move
            behind == from_coords(last.move.from_square \div 8, last.move.to_square % 8)
        IN /\ get_piece_at(last.pre, last.move.to_square) = "."
           /\ get_piece_at(board, last.move.to_square) = (IF white THEN "P" ELSE "p")
           /\ get_piece_at(last.pre, behind) = (IF white THEN "p" ELSE "P")
           /\ get_piece_at(board, behind) = "."

\* C10: a successful make_move flips white_to_move, and fullmove_number is
\* one more after a move by Black and unchanged after a move by White.
C10_SideFlipsAndFullmoveCounts ==
    MadeMove =>
        /\ board.white_to_move = ~last.pre.white_to_move
        /\ board.fullmove_number =
               last.pre.fullmove_number + (IF last.pre.white_to_move THEN 0 ELSE 1)

\* C11: after a successful make_move, halfmove_clock is 0 when the moved
\* piece was a pawn or the move captured a piece, and one more than before
\* the call otherwise.
C11_HalfmoveClockCounts ==
    MadeMove =>
        board.halfmove_clock =
            IF \/ upper(LastPiece) = "P"
               \/ get_piece_at(last.pre, last.move.to_square) # "."
               \/ last.move.flag = "EN_PASSANT"
            THEN 0
            ELSE last.pre.halfmove_clock + 1

\* The castling right that belongs to the rook of a home corner.
CornerRight(square) ==
    IF square = A1 THEN "Q" ELSE IF square = H1 THEN "K" ELSE IF square = A8 THEN "q" ELSE "k"

\* C12: after a successful make_move onto a1, h1, a8 or h8 that takes the
\* enemy rook standing there, the castling right of that rook (Q, K, q, k)
\* is False.
C12_RookCaptureClearsRight ==
    (/\ MadeMove
     /\ last.move.to_square \in {A1, H1, A8, H8}
     /\ get_piece_at(last.pre, last.move.to_square) =
            (IF last.move.to_square \in {A1, H1} THEN "R" ELSE "r")
     /\ isupper(LastPiece) # isupper(get_piece_at(last.pre, last.move.to_square)))
        => ~board.castling_rights[CornerRight(last.move.to_square)]

\* C13: for every reachable position, those reached from the standard
\* start by legal moves among them, the board built from generate_fen() has
\* the same twelve bitboards, side to move, castling rights, en-passant
\* target, halfmove clock and fullmove number (and so the same occupancy
\* masks) as the board itself.
C13_FenRoundTrip ==
    LET fen == generate_fen(board)
    IN parse_fen(EmptyBoard, fen).ok /\ Board(fen) = board

\* A position reached from the standard start by a legal move.
C13_Witness ==
    /\ MadeMove /\ last.generated
    /\ Cardinality(board.all_pieces) = 32 /\ board # Board(STARTING_FEN)

\* The number of squares a rank of a piece-placement field covers.
RECURSIVE RankWidth(_)
RankWidth(rank) ==
    IF Len(rank) = 0 THEN 0
    ELSE (IF isdigit(Head(rank)) THEN DigitValue(Head(rank)) ELSE 1) + RankWidth(Tail(rank))

\* Some rank of the placement field does not cover exactly 8 squares, or
\* holds a character that is neither a digit nor a piece letter.
MalformedPlacement(fen) ==
    LET ranks == split_on(split_blank(fen)[1], "/", <<>>)
    IN \E i \in DOMAIN ranks :
           \/ RankWidth(ranks[i]) # 8
           \/ \E j \in DOMAIN ranks[i] :
                  ~isdigit(ranks[i][j]) /\ ~InSeq(PieceChars, ranks[i][j])

\* C14: constructing a Board from a string whose placement field has a
\* rank that does not sum to 8 squares, or a character that is neither a
\* digit nor one of PNBRQKpnbrqk, raises: no such string yields a Board.
C14_MalformedFenRejected ==
    (last.op = "Board" /\ MalformedPlacement(last.arg)) => ~last.ok

\* The strings from_uci is to accept: two squares a-h, 1-8 and at most one
\* lower-case promotion letter n, b, r or q.
WellFormedUci(uci) ==
    /\ Len(uci) \in {4, 5}
    /\ uci[1] \in Range(FileChars) /\ uci[2] \in Range(RankChars)
    /\ uci[3] \in Range(FileChars) /\ uci[4] \in Range(RankChars)
    /\ Len(uci) = 5 => uci[5] \in {"n", "b", "r", "q"}

\* C17: from_uci raises for every string that is not 4 or 5 characters of
\* the form file, rank, file, rank, promotion letter, and for every
\* 5-character string whose fifth character is not one of the lower-case
\* letters n, b, r, q.
C17_FromUciRejectsMalformed ==
    (last.op = "from_uci" /\ ~WellFormedUci(last.arg)) => ~last.ok

\* Board() counts of piece kinds.
Count(self, white_bb, black_bb) == Cardinality(self[white_bb]) + Cardinality(self[black_bb])

\* C15: the board built from the standard start string has 16 pawns, 4
\* rooks, 4 knights, 4 bishops, 2 queens and 2 kings, White to move, all
\* four castling rights, no en-passant target, halfmove clock 0 and
\* fullmove number 1, and get_legal_moves on it returns exactly 20 moves.
C15_StandardStart ==
    /\ (last.op = "init" /\ board = Board(STARTING_FEN)) =>
           /\ Count(board, "white_pawns", "black_pawns") = 16
           /\ Count(board, "white_rooks", "black_rooks") = 4
           /\ Count(board, "white_knights", "black_knights") = 4
           /\ Count(board, "white_bishops", "black_bishops") = 4
           /\ Count(board, "white_queens", "black_queens") = 2
           /\ Count(board, "white_king", "black_king") = 2
           /\ Cardinality(board.all_pieces) = 32
           /\ board.white_to_move
           /\ board.castling_rights = [K |-> TRUE, Q |-> TRUE, k |-> TRUE, q |-> TRUE]
           /\ board.en_passant_target = None
           /\ board.halfmove_clock = 0
           /\ board.fullmove_number = 1
    /\ (last.op = "get_legal_moves" /\ last.pre = Board(STARTING_FEN)) =>
           Len(legal_moves) = 20 /\ Cardinality(Range(legal_moves)) = 20

\* get_legal_moves was called on the standard start position.
C15_Witness ==
    /\ last.op = "get_legal_moves" /\ last.pre = Board(STARTING_FEN)
    /\ Len(legal_moves) = 20

\* get_legal_moves() of the position is empty.
NoLegalMoves(self) == Len(get_legal_moves(self).moves) = 0

\* C16: is_checkmate() is True iff the side to move is in check and
\* get_legal_moves() is empty, is_stalemate() is True iff the side to move is
\* not in check and get_legal_moves() is empty, the two are never both True
\* of one position, and the fool's-mate position is checkmate with no legal
\* move.
C16_CheckmateAndStalemate ==
    /\ last.op = "is_checkmate" =>
           last.result = (/\ KingAttacked(last.pre, last.pre.white_to_move)
                          /\ NoLegalMoves(last.pre))
    /\ last.op = "is_stalemate" =>
           last.result = (/\ ~KingAttacked(last.pre, last.pre.white_to_move)
                          /\ NoLegalMoves(last.pre))
    /\ ~(is_checkmate(board).result /\ is_stalemate(board).result)
    /\ board = Board(FoolsMateFen) =>
           /\ is_checkmate(board).result
           /\ ~is_stalemate(board).result
           /\ NoLegalMoves(board)

\* is_checkmate answered True on the fool's-mate position.
C16_Witness ==
    last.op = "is_checkmate" /\ last.result /\ last.pre = Board(FoolsMateFen)

\* C18: evaluate() leaves the board it was given as it found it: bitboards,
\* side to move, the four castling rights, en-passant target and counters.
C18_EvaluateLeavesBoard ==
    last.op = "evaluate" => board = last.pre

\* C19: evaluate() returns -20000 for a checkmate with White to move,
\* +20000 for a checkmate with Black to move and 0 for a stalemate, and
\* nothing is added to these values.
C19_TerminalScores ==
    last.op = "evaluate" =>
        LET white == last.pre.white_to_move
            in_check == KingAttacked(last.pre, white)
        IN /\ (in_check /\ NoLegalMoves(last.pre)) =>
                  last.score = IF white THEN -20000 ELSE 20000
           /\ (~in_check /\ NoLegalMoves(last.pre)) => last.score = 0

\* evaluate() was called on a stalemate.
C19_Witness ==
    /\ last.op = "evaluate" /\ last.terminal = "stalemate" /\ last.score = 0
    /\ ~KingAttacked(last.pre, last.pre.white_to_move) /\ NoLegalMoves(last.pre)

\* C20: when _evaluate_single_exchange returns a positive gain, the gain
\* it returns with one more piece type among the defenders is not larger.
C20_ExchangeMonotone ==
    (last.op = "_evaluate_single_exchange" /\ last.gain > 0) =>
        \A t \in Range(PieceTypes) \ Range(last.defenders) :
            evaluate_single_exchange(
                last.target, last.attackers,
                SelectSeq(PieceTypes, LAMBDA x : x = t \/ x \in Range(last.defenders)))
            <= last.gain

\* C23: for a bishop, rook or queen, get_attacks returns exactly the squares
\* the piece attacks along its own lines: every square of a ray up to and
\* including the first occupied one, and no square reached by wrapping from
\* one edge file to the other.
C23_SlidingAttacksStayOnLines ==
    (last.op = "get_attacks"
     /\ upper(get_piece_at(board, last.square)) \in {"B", "R", "Q"}) =>
        last.attacks = {s \in Squares : PieceAttacks(board, last.square, s)}

\* C24: is_square_attacked(s, c) is True iff some square p holds a piece of
\* colour c and bit s is set in get_attacks(p).
C24_AttackedIffInAttacks ==
    last.op = "is_square_attacked" =>
        (last.result <=>
            \E p \in Squares :
                /\ IF last.by_white THEN isupper(get_piece_at(board, p))
                                    ELSE islower(get_piece_at(board, p))
                /\ last.square \in get_attacks(board, p))

\* A piece of the colour other than the given one attacks the square.
AttackedByOpponent(self, white, square) ==
    \E p \in Squares :
        /\ IF white THEN islower(get_piece_at(self, p)) ELSE isupper(get_piece_at(self, p))
        /\ PieceAttacks(self, p, square)

\* The castling moves the rules stated for get_legal_moves allow on a board:
\* the right is set, the king is on e1/e8, the squares between king and
\* corner are empty, and the king's start, transit and destination squares
\* are not attacked by the opponent.
CastlingAllowed(self) ==
    LET white == self.white_to_move
        home == IF white THEN E1 ELSE E8
        king_home == get_piece_at(self, home) = (IF white THEN "K" ELSE "k")
        empty(s) == get_piece_at(self, s) = "."
        safe(s) == ~AttackedByOpponent(self, white, s)
    IN (IF /\ self.castling_rights[IF white THEN "K" ELSE "k"]
           /\ king_home /\ empty(home + 1) /\ empty(home + 2)
           /\ safe(home) /\ safe(home + 1) /\ safe(home + 2)
        THEN {Move(home, home + 2, "KING_CASTLE")} ELSE {})
       \cup
       (IF /\ self.castling_rights[IF white THEN "Q" ELSE "q"]
           /\ king_home /\ empty(home - 1) /\ empty(home - 2) /\ empty(home - 3)
           /\ safe(home) /\ safe(home - 1) /\ safe(home - 2)
        THEN {Move(home, home - 2, "QUEEN_CASTLE")} ELSE {})

\* C22: get_legal_moves contains a king-side (queen-side) castling move for
\* the side to move iff that side's right is set, its king is on e1/e8, f and
\* g (b, c and d) on the home rank are empty, and e, f and g (e, d and c) are
\* not attacked by the opponent.
C22_CastlingOfferedIffAllowed ==
    last.op = "get_legal_moves" =>
        {m \in Range(legal_moves) : is_castling(m)} = CastlingAllowed(last.pre)

\* get_legal_moves offered both castling moves to Black.
C22_Witness ==
    /\ last.op = "get_legal_moves" /\ ~last.pre.white_to_move
    /\ {m \in Range(legal_moves) : is_castling(m)}
           = {Move(E8, G8, "KING_CASTLE"), Move(E8, C8, "QUEEN_CASTLE")}

\* A Move returned by Move.from_uci with a promotion kind has its destination
\* on rank 8 or rank 1.
PromotionFromUciOnLastRank ==
    (last.op = "from_uci" /\ last.ok /\ is_promotion(last.move)) =>
        last.move.to_square \div 8 \in {0, 7}

\* The moves of get_legal_moves: a promotion lands on the mover's farthest
\* rank, and a pawn move landing there comes as exactly the four promotion
\* variants (promotion-capture variants onto an occupied square).
PromotionFromLegalMoves ==
    last.op = "get_legal_moves" =>
        LET white == last.pre.white_to_move
            far == IF white THEN 7 ELSE 0
            flags(m) == {n.flag : n \in {x \in Range(legal_moves) :
                                            /\ x.from_square = m.from_square
                                            /\ x.to_square = m.to_square}}
        IN \A m \in Range(legal_moves) :
               /\ is_promotion(m) => m.to_square \div 8 = far
               /\ (/\ upper(get_piece_at(last.pre, m.from_square)) = "P"
                   /\ m.to_square \div 8 = far) =>
                      flags(m) = IF get_piece_at(last.pre, m.to_square) = "."
                                 THEN Range(promotion_flags)
                                 ELSE Range(promotion_capture_flags)

\* C25: every Move that carries a promotion kind, produced by get_legal_moves
\* or by Move.from_uci, has its destination on rank 8 (White mover) or rank 1
\* (Black mover), and get_legal_moves emits for a pawn move landing on the
\* farthest rank exactly the four promotion variants and no QUIET or CAPTURE
\* move.
C25_PromotionOnLastRank ==
    PromotionFromUciOnLastRank /\ PromotionFromLegalMoves

\* C29: a call of get_legal_moves leaves the board such that the next call,
\* with no make_move in between, returns the same set of moves; a castling
\* move offered by the first call is offered by the second.
C29_GetLegalMovesRepeatable ==
    last.op = "get_legal_moves" =>
        Range(get_legal_moves(board).moves) = Range(legal_moves)

\* The number of pieces on a board.
PieceCount(self) == Cardinality(self.all_pieces)

\* The corner square on which the rook of a castling move starts.
CastlingCorner(self, move) ==
    IF move.flag = "KING_CASTLE" THEN (IF self.white_to_move THEN H1 ELSE H8)
    ELSE (IF self.white_to_move THEN A1 ELSE A8)

\* C30: a move taken from get_legal_moves and applied with make_move never
\* increases the number of pieces on the board, increases the number of
\* rooks of a colour only by promotion, and a castling move puts a rook next
\* to the king only when a rook of the mover stood on the corner square.
C30_NoPieceFromNowhere ==
    (MadeMove /\ last.generated) =>
        /\ PieceCount(board) <= PieceCount(last.pre)
        /\ ~is_promotion(last.move) =>
               /\ Cardinality(board.white_rooks) <= Cardinality(last.pre.white_rooks)
               /\ Cardinality(board.black_rooks) <= Cardinality(last.pre.black_rooks)
        /\ is_castling(last.move) =>
               get_piece_at(last.pre, CastlingCorner(last.pre, last.move))
                   = (IF last.pre.white_to_move THEN "R" ELSE "r")

\* The square on the same file with the ranks flipped.
FlipSquare(square) == (7 - (square \div 8)) * 8 + (square % 8)

\* The mirror of a position: ranks flipped, colours swapped, side to move
\* swapped.
Mirror(self) ==
    LET flip(bb) == {FlipSquare(sq) : sq \in bb} IN
    [white_pawns |-> flip(self.black_pawns), white_knights |-> flip(self.black_knights),
     white_bishops |-> flip(self.black_bishops), white_rooks |-> flip(self.black_rooks),
     white_queens |-> flip(self.black_queens), white_king |-> flip(self.black_king),
     black_pawns |-> flip(self.white_pawns), black_knights |-> flip(self.white_knights),
     black_bishops |-> flip(self.white_bishops), black_rooks |-> flip(self.white_rooks),
     black_queens |-> flip(self.white_queens), black_king |-> flip(self.white_king),
     white_pieces |-> flip(self.black_pieces), black_pieces |-> flip(self.white_pieces),
     all_pieces |-> flip(self.all_pieces),
     white_to_move |-> ~self.white_to_move,
     castling_rights |-> [K |-> self.castling_rights.k, Q |-> self.castling_rights.q,
                          k |-> self.castling_rights.K, q |-> self.castling_rights.Q],
     en_passant_target |-> IF self.en_passant_target = None THEN None
                           ELSE FlipSquare(self.en_passant_target),
     halfmove_clock |-> self.halfmove_clock,
     fullmove_number |-> self.fullmove_number]

\* C21: for a non-terminal position P and its mirror M, the material score
\* and the positional score of M are the negation of those of P, and
\* evaluate(M) = -evaluate(P).
C21_MirrorNegatesEvaluation ==
    (last.op = "evaluate" /\ last.terminal = "none") =>
        \A m \in {evaluate(Mirror(last.pre))} :
            /\ m.terminal = "none"
            /\ m.terms.material = -last.terms.material
            /\ m.terms.position = -last.terms.position
            /\ m.score = -last.score

\* The units missing below the standard count, weighted: pawn 4, knight and
\* bishop 8, rook 16, queen 32.
MissingUnits(self) ==
    LET missing(standard, white_bb, black_bb) ==
            Max(0, standard - Count(self, white_bb, black_bb))
    IN 4 * missing(16, "white_pawns", "black_pawns")
       + 8 * missing(4, "white_knights", "black_knights")
       + 8 * missing(4, "white_bishops", "black_bishops")
       + 16 * missing(4, "white_rooks", "black_rooks")
       + 32 * missing(2, "white_queens", "black_queens")

\* C26: game_phase lies in 0..256; it is 256 minus the weighted count of the
\* units missing below the standard count, floored at 0, and counts above
\* the standard count never raise it above 256.
C26_GamePhaseRange ==
    last.op = "evaluate" =>
        /\ last.terms.game_phase \in 0..256
        /\ last.terms.game_phase = Max(0, 256 - MissingUnits(last.pre))

\* C27: for a non-terminal position the factor game_phase/256 multiplies
\* only the positional and tactical terms, the material score is added
\* unscaled, and the tempo bonus (+15 White to move, -15 Black to move) is
\* added afterwards in every case, also when |material score| > 2000.
C27_PhaseScalesPositionalTermsOnly ==
    (last.op = "evaluate" /\ last.terminal = "none") =>
        last.score = last.terms.material
                     + int_div_256((last.terms.position + last.terms.exchanges)
                                   * last.terms.game_phase)
                     + (IF last.pre.white_to_move THEN 15 ELSE -15)

\* The pieces of one colour on squares that are in the attack map of at
\* least one piece type of the other colour and of no piece type of their
\* own colour.
AttackedUndefended(self, white) ==
    LET own_maps == IF white THEN white_piece_attacks(self) ELSE black_piece_attacks(self)
        enemy_maps == IF white THEN black_piece_attacks(self) ELSE white_piece_attacks(self)
    IN {sq \in (IF white THEN ev_white_pieces(self) ELSE ev_black_pieces(self)) :
            /\ \E t \in DOMAIN enemy_maps : sq \in enemy_maps[t]
            /\ \A t \in DOMAIN own_maps : sq \notin own_maps[t]}

\* C28: _evaluate_exchanges counts a piece as hanging iff its square is in
\* the attack map of at least one enemy piece type and in the attack map of
\* no own piece type, whatever the number of piece types attacking it.
C28_HangingIffAttackedUndefended ==
    (last.op = "evaluate" /\ last.terms.detailed) =>
        /\ last.terms.hanging.white = AttackedUndefended(last.pre, TRUE)
        /\ last.terms.hanging.black = AttackedUndefended(last.pre, FALSE)

====
